---- MODULE Spec2Model ----
(***************************************************************************)
(* A model of PyLrc (NewestVersion/MyLyric): the LRC time tag               *)
(* (LyricTimeTab), the tokenizer of a lyric line                            *)
(* (LyricLineContent.split_line_to_time_and_char), the pronunciation groups *)
(* (LyricPronunciationGroup) and the kana-tag codec of LyricLineContent.    *)
(*                                                                         *)
(* A Python str is a sequence of Unicode code points (what ord() returns);  *)
(* a datetime.timedelta is its total number of microseconds, an integer.    *)
(***************************************************************************)
EXTENDS Integers, Sequences, FiniteSets, TLC

(***************************************************************************)
(* Text helpers: Python str operations on sequences of code points.        *)
(***************************************************************************)

\* ord() of the ASCII characters the model writes its literals with.
Ord(c) ==
    CASE c = "0" -> 48 [] c = "1" -> 49 [] c = "2" -> 50 [] c = "3" -> 51
      [] c = "4" -> 52 [] c = "5" -> 53 [] c = "6" -> 54 [] c = "7" -> 55
      [] c = "8" -> 56 [] c = "9" -> 57
      [] c = ":" -> 58 [] c = "." -> 46 [] c = "-" -> 45 [] c = " " -> 32
      [] c = "[" -> 91 [] c = "]" -> 93 [] c = "<" -> 60 [] c = ">" -> 62
      [] c = "(" -> 40 [] c = ")" -> 41
      [] c = "N" -> 78 [] c = "i" -> 105 [] c = "o" -> 111 [] c = "n" -> 110
      [] c = "e" -> 101 [] c = "a" -> 97 [] c = "b" -> 98 [] c = "x" -> 120

\* A str literal: the code points of its characters.
Str(t) == IF t = <<>> THEN <<>> ELSE [i \in 1..Len(t) |-> Ord(t[i])]

\* Concatenation of a sequence of strs: "".join(parts).
RECURSIVE Join(_)
Join(parts) == IF parts = <<>> THEN <<>> ELSE Head(parts) \o Join(Tail(parts))

\* line[a:b] with 0 <= a, Python's clamping of b to len(line).
Slice(line, a, b) ==
    LET hi == IF b > Len(line) THEN Len(line) ELSE b
    IN  IF a >= hi THEN <<>> ELSE SubSeq(line, a + 1, hi)

\* \d of the regular expressions and the digits int() reads.
IsDigit(c) == c \in 48..57

\* int(s) for a str of digits; the callers map "" themselves.
RECURSIVE IntOfStr(_)
IntOfStr(s) ==
    IF s = <<>> THEN 0
    ELSE IntOfStr(SubSeq(s, 1, Len(s) - 1)) * 10 + (s[Len(s)] - 48)

\* str(n) of an int, with the minus sign of a negative one.
RECURSIVE StrOfNat(_)
StrOfNat(n) == IF n < 10 THEN <<48 + n>> ELSE StrOfNat(n \div 10) \o <<48 + (n % 10)>>

StrOfInt(n) == IF n < 0 THEN <<45>> \o StrOfNat(-n) ELSE StrOfNat(n)

\* s.rjust(width, "0") and s.ljust(width, "0").
RJust(s, width) ==
    IF Len(s) >= width THEN s ELSE [i \in 1..(width - Len(s)) |-> 48] \o s

LJust(s, width) ==
    IF Len(s) >= width THEN s ELSE s \o [i \in 1..(width - Len(s)) |-> 48]

\* 10 ** k
RECURSIVE Pow10(_)
Pow10(k) == IF k = 0 THEN 1 ELSE 10 * Pow10(k - 1)

(***************************************************************************)
(* LyricTimeTab: the grammars of the modes.                                *)
(***************************************************************************)

MODE_TYPE == <<"strict", "normal", "loose", "very_loose", "self_defined">>

CONVERSION_TIME_60 == 60

STANDARD_MINUTES_LEN == 2

STANDARD_SECONDS_LEN == 2

STANDARD_MILLISECONDS_LEN == 2

STANDARD_MINUTES_SECONDS_SEPERATOR == <<58>>

STANDARD_SECONDS_MILLISECONDS_SEPERATOR == <<46>>

\* A digit field \d{lo,hi}, or \d* when star.
Exactly(k) == [star |-> FALSE, lo |-> k, hi |-> k]
Between(a, b) == [star |-> FALSE, lo |-> a, hi |-> b]
AnyCount == [star |-> TRUE, lo |-> 0, hi |-> 0]

TIME_TAB_STRICT_REGREX ==
    [minutes |-> Exactly(2), seconds |-> Exactly(2), seps |-> {46},
     sep_optional |-> FALSE, milliseconds |-> Exactly(2)]

TIME_TAB_NORMAL_REGREX ==
    [minutes |-> Exactly(2), seconds |-> Exactly(2), seps |-> {58, 46},
     sep_optional |-> FALSE, milliseconds |-> Between(2, 3)]

TIME_TAB_LOOSE_REGREX ==
    [minutes |-> AnyCount, seconds |-> AnyCount, seps |-> {58, 46},
     sep_optional |-> TRUE, milliseconds |-> AnyCount]

TIME_TAB_VERY_LOOSE_REGREX ==
    [minutes |-> AnyCount, seconds |-> AnyCount, seps |-> {58, 46},
     sep_optional |-> TRUE, milliseconds |-> AnyCount]

TIME_TAB_DIFFERENT_MODE_REGREX(mode) ==
    CASE mode = "strict" -> TIME_TAB_STRICT_REGREX
      [] mode = "normal" -> TIME_TAB_NORMAL_REGREX
      [] mode = "loose" -> TIME_TAB_LOOSE_REGREX
      [] mode = "very_loose" -> TIME_TAB_VERY_LOOSE_REGREX

BuiltinModes == {"strict", "normal", "loose", "very_loose"}

\* The number of consecutive digits of line from 0-based index k on.
RECURSIVE DigitRun(_, _)
DigitRun(line, k) ==
    IF k < Len(line) /\ IsDigit(line[k + 1]) THEN 1 + DigitRun(line, k + 1) ELSE 0

\* How many digits of a run the greedy field d takes, or -1 when it cannot
\* match.  A digit field is always followed by a non-digit, so giving digits
\* back never turns a failure into a match.
DigitsTaken(run, d) ==
    IF d.star THEN run
    ELSE IF run < d.lo THEN -1
    ELSE IF run > d.hi THEN d.hi ELSE run

CountDigits(line, k, d) == DigitsTaken(DigitRun(line, k), d)

\* The character at 0-based index k, or -1 past the end of the line.
CharAt(line, k) == IF k < Len(line) THEN line[k + 1] ELSE -1

\* A failed match.
NoMatch == [ok |-> FALSE]

\* The match object: its span, its named groups and group().  i2 is the index
\* of ":", i3 the end of the seconds, i4 the start and i5 the end of the
\* milliseconds; seconds_milliseconds_seperator is None (has_sep FALSE) when
\* the optional group did not take part.
MatchObject(line, start, i2, i3, has_sep, i4, i5) ==
    [ok |-> TRUE, start |-> start, end |-> i5 + 1,
     left_bracket |-> <<line[start + 1]>>,
     minutes |-> Slice(line, start + 1, i2),
     minutes_seconds_seperator |-> <<58>>,
     seconds |-> Slice(line, i2 + 1, i3),
     has_sep |-> has_sep,
     seconds_milliseconds_seperator |-> Slice(line, i3, i4),
     milliseconds |-> Slice(line, i4, i5),
     right_bracket |-> <<line[i5 + 1]>>,
     group |-> Slice(line, start, i5 + 1)]

\* The right bracket after cms millisecond digits.
MatchRightBracket(line, start, i2, i3, has_sep, i4, cms) ==
    IF cms >= 0 /\ CharAt(line, i4 + cms) \in {93, 62}
    THEN MatchObject(line, start, i2, i3, has_sep, i4, i4 + cms)
    ELSE NoMatch

\* The optional seperator at i3 and the millisecond digits after it.
MatchSeperator(p, line, start, i2, i3, has_sep) ==
    IF has_sep
    THEN MatchRightBracket(line, start, i2, i3, TRUE, i3 + 1,
                           CountDigits(line, i3 + 1, p.milliseconds))
    ELSE IF p.sep_optional
    THEN MatchRightBracket(line, start, i2, i3, FALSE, i3,
                           CountDigits(line, i3, p.milliseconds))
    ELSE NoMatch

\* The seconds: cs digits from i2 + 1 on.
MatchSeconds(p, line, start, i2, cs) ==
    IF cs >= 0
    THEN MatchSeperator(p, line, start, i2, i2 + 1 + cs,
                        CharAt(line, i2 + 1 + cs) \in p.seps)
    ELSE NoMatch

\* The ":" after cm minute digits.
MatchMinutes(p, line, start, cm) ==
    IF cm >= 0 /\ CharAt(line, start + 1 + cm) = 58
    THEN MatchSeconds(p, line, start, start + 1 + cm,
                      CountDigits(line, start + 2 + cm, p.seconds))
    ELSE NoMatch

\* pattern.match(line, start): the match that begins at 0-based index start,
\* field by field from the left bracket on.
MatchAt(p, line, start) ==
    IF CharAt(line, start) \in {91, 60}
    THEN MatchMinutes(p, line, start, CountDigits(line, start + 1, p.minutes))
    ELSE NoMatch

\* re.finditer(pattern, line): the non-overlapping matches, leftmost first.
\* The scan goes on after a match m, or one character further without one.
RECURSIVE FindIter(_, _, _)
RECURSIVE FindIterStep(_, _, _, _)
FindIterStep(p, line, pos, m) ==
    IF m.ok THEN <<m>> \o FindIter(p, line, m.end) ELSE FindIter(p, line, pos + 1)

FindIter(p, line, pos) ==
    IF pos >= Len(line) THEN <<>> ELSE FindIterStep(p, line, pos, MatchAt(p, line, pos))

(***************************************************************************)
(* LyricTimeTab: the object, its parsing and its formatting.               *)
(***************************************************************************)

\* None where a str is expected; an f-string renders it as "None".
None == <<-1>>

FStr(v) == IF v = None THEN Str(<<"N", "o", "n", "e">>) ELSE v

\* round() to the nearest integer, ties to even, of num / den (den > 0):
\* how datetime.timedelta rounds a fractional number of microseconds.
RoundHalfEven(num, den) ==
    LET q == num \div den
        r == num % den
    IN  IF 2 * r < den THEN q
        ELSE IF 2 * r > den THEN q + 1
        ELSE IF q % 2 = 0 THEN q ELSE q + 1

\* The str of the millisecond group as _initialize_time_tab pads it.
PadMilliseconds(ms) == RJust(ms, 4)

\* The time stamp of the groups of a match, in microseconds: the padded
\* millisecond str gives the milliseconds (its first three characters) and
\* the microseconds (the rest, scaled and rounded).
TimeStampOfGroups(minutes, seconds, milliseconds_str) ==
    ((IF minutes # <<>> THEN IntOfStr(minutes) ELSE 0) * CONVERSION_TIME_60
       + (IF seconds # <<>> THEN IntOfStr(seconds) ELSE 0)) * 1000000
    + IntOfStr(Slice(milliseconds_str, 0, 3)) * 1000
    + RoundHalfEven(IntOfStr(Slice(milliseconds_str, 3, Len(milliseconds_str))),
                    Pow10(Len(milliseconds_str) - 3))

\* The time stamp _initialize_time_tab computes from a match.
TimeStampOfMatch(m) ==
    TimeStampOfGroups(m.minutes, m.seconds, PadMilliseconds(m.milliseconds))

\* The attributes __init__ sets before it parses the text.
NewTab(text, mode) ==
    [original_time_tab |-> text,
     current_time_tab |-> text,
     mode |-> mode,
     brackets |-> <<None, None>>,
     time_stamp |-> None,
     minutes_seconds_seperator |-> None,
     seconds_milliseconds_seperator |-> None,
     min_len_of_minutes |-> None,
     min_len_of_seconds |-> None,
     len_of_millisecond |-> None,
     cut_off_millisecond |-> TRUE]

\* _initialize_time_tab for a text that is not None: the prefix match of the
\* mode's pattern, then the attributes taken from its groups.  The result is
\* the exception raised ("" for none) and the object as the call leaves it.
InitializeFromMatch(self, m) ==
    IF ~m.ok
    THEN [raised |-> "ValueError", obj |-> self]
    ELSE [raised |-> "",
          obj |-> [original_time_tab |-> self.original_time_tab,
                   current_time_tab |-> self.current_time_tab,
                   mode |-> self.mode,
                   brackets |-> <<m.left_bracket, m.right_bracket>>,
                   time_stamp |-> TimeStampOfMatch(m),
                   minutes_seconds_seperator |-> m.minutes_seconds_seperator,
                   seconds_milliseconds_seperator |->
                       IF m.has_sep THEN m.seconds_milliseconds_seperator ELSE None,
                   min_len_of_minutes |-> Len(m.minutes),
                   min_len_of_seconds |-> Len(m.seconds),
                   len_of_millisecond |-> Len(m.milliseconds),
                   cut_off_millisecond |-> self.cut_off_millisecond]]

\* _initialize_time_tab: a text that is None resets every attribute to None
\* and returns; another text is matched with the pattern the dict
\* TIME_TAB_DIFFERENT_MODE_REGREX has under the mode's name, which is a
\* KeyError for "self_defined".
InitializeTimeTab(self) ==
    IF self.current_time_tab = None
    THEN [raised |-> "",
          obj |-> [NewTab(None, self.mode)
                       EXCEPT !.original_time_tab = self.original_time_tab,
                              !.cut_off_millisecond = self.cut_off_millisecond]]
    ELSE IF self.mode \notin BuiltinModes
    THEN [raised |-> "KeyError", obj |-> self]
    ELSE InitializeFromMatch(self, MatchAt(TIME_TAB_DIFFERENT_MODE_REGREX(self.mode),
                                           self.current_time_tab, 0))

\* var_type_guard(var, var_type) for a var of type type_of_var: the exception
\* it raises ("" for none).  The loop calls issubclass(each_type, type(var))
\* on each entry in turn and stops at the first True; issubclass raises
\* TypeError on the entry None, which is not a class, and the guard raises
\* TypeError when no entry is left.
RECURSIVE VarTypeGuard(_, _)
VarTypeGuard(type_of_var, var_type) ==
    IF var_type = <<>> THEN "TypeError"
    ELSE IF Head(var_type) = "None" THEN "TypeError"
    ELSE IF Head(var_type) = type_of_var THEN ""
    ELSE VarTypeGuard(type_of_var, Tail(var_type))

\* No self_defined_regex: the None of a mode tuple (mode, None).
NoPattern == [minutes |-> AnyCount, seconds |-> AnyCount, seps |-> {},
              sep_optional |-> FALSE, milliseconds |-> AnyCount, is_none |-> TRUE]

\* A compiled pattern with the seven group names of SELF_DEFINED_GROUP_NAME.
SelfDefinedPattern(p) ==
    [minutes |-> p.minutes, seconds |-> p.seconds, seps |-> p.seps,
     sep_optional |-> p.sep_optional, milliseconds |-> p.milliseconds,
     is_none |-> FALSE]

\* __mode_guard: the exception it raises ("" for none).  Another mode than
\* "self_defined" passes, with a warning when a pattern came along.  For
\* "self_defined" the test isinstance(self.mode[0], Pattern) is made on the
\* mode's name, a str, so the TypeError branch is taken whatever
\* self_defined_regex is.
ModeGuard(mode, self_defined_regex) ==
    IF mode # MODE_TYPE[5] THEN "" ELSE "TypeError"

\* LyricTimeTab(text, (mode, self_defined_regex)): the attributes, the type
\* guard of the text, the mode guard, then _initialize_time_tab.
LyricTimeTabOfMode(text, mode, self_defined_regex) ==
    IF VarTypeGuard(IF text = None THEN "NoneType" ELSE "str",
                    <<"str", "UserString", "None">>) # ""
    THEN [raised |-> "TypeError", obj |-> NewTab(text, mode)]
    ELSE IF ModeGuard(mode, self_defined_regex) # ""
    THEN [raised |-> ModeGuard(mode, self_defined_regex), obj |-> NewTab(text, mode)]
    ELSE InitializeTimeTab(NewTab(text, mode))

\* LyricTimeTab(text, (mode, None))
LyricTimeTab(text, mode) == LyricTimeTabOfMode(text, mode, NoPattern)

\* The minutes field: int(total_seconds // 60), floor division.
MinutesOf(time_stamp) == time_stamp \div (CONVERSION_TIME_60 * 1000000)

\* The seconds field: int(total_seconds % 60).
SecondsOf(time_stamp) == (time_stamp % (CONVERSION_TIME_60 * 1000000)) \div 1000000

\* time_stamp.microseconds: the normalised microsecond attribute, in [0, 10^6).
MicrosecondsOf(time_stamp) == time_stamp % 1000000

\* The str the millisecond field is rendered from.
MillisecondStr(time_stamp) == StrOfInt(MicrosecondsOf(time_stamp))

\* convert_time_tab_to_time_tab_classmethod with integer widths.
ConvertTimeTabToTimeTab(time_stamp, min_len_of_minutes, min_len_of_seconds, min_len_of_millisecond, cut_off_millisecond, brackets, seperator) ==
    LET minutes_str == RJust(StrOfInt(MinutesOf(time_stamp)), min_len_of_minutes)
        seconds_str == RJust(StrOfInt(SecondsOf(time_stamp)), min_len_of_seconds)
        padded == LJust(MillisecondStr(time_stamp), min_len_of_millisecond)
        millisecond_str == IF cut_off_millisecond
                           THEN Slice(padded, 0, min_len_of_millisecond)
                           ELSE padded
    IN  FStr(brackets[1]) \o minutes_str \o FStr(seperator[1]) \o seconds_str
        \o FStr(seperator[2]) \o millisecond_str \o FStr(brackets[2])

\* convert_to_time_tab_base_on_inner_param
ConvertToTimeTabBaseOnInnerParam(self) ==
    ConvertTimeTabToTimeTab(self.time_stamp, self.min_len_of_minutes,
                            self.min_len_of_seconds, self.len_of_millisecond,
                            self.cut_off_millisecond, self.brackets,
                            <<self.minutes_seconds_seperator,
                              self.seconds_milliseconds_seperator>>)

\* paring_brackets with pair_left_brackets = True
ParingBrackets(brackets) ==
    IF brackets[1] = <<91>> THEN <<(<<91>>), (<<93>>)>>
    ELSE IF brackets[1] = <<60>> THEN <<(<<60>>), (<<62>>)>>
    ELSE <<(<<91>>), (<<93>>)>>

\* convert_to_standardized_time_tab()
ConvertToStandardizedTimeTab(self) ==
    ConvertTimeTabToTimeTab(self.time_stamp, STANDARD_MINUTES_LEN, STANDARD_SECONDS_LEN,
                            STANDARD_MILLISECONDS_LEN, TRUE, ParingBrackets(self.brackets),
                            <<STANDARD_MINUTES_SECONDS_SEPERATOR,
                              STANDARD_SECONDS_MILLISECONDS_SEPERATOR>>)

\* The current_time_tab setter: the type guard of the value, then the text
\* is stored, then parsed again.
SetCurrentTimeTab(self, value) ==
    IF VarTypeGuard(IF value = None THEN "NoneType" ELSE "str", <<"str", "UserString">>) # ""
    THEN [raised |-> "TypeError", obj |-> self]
    ELSE InitializeTimeTab([self EXCEPT !.current_time_tab = value])

\* The mode setter for a tuple (value, None): the mode guard, which reads
\* the mode the tag still has, then the mode is stored, then the text is
\* parsed again.
SetMode(self, value) ==
    IF ModeGuard(self.mode, NoPattern) # ""
    THEN [raised |-> ModeGuard(self.mode, NoPattern), obj |-> self]
    ELSE InitializeTimeTab([self EXCEPT !.mode = value])

\* standardize_self
StandardizeSelfOf(self) == SetCurrentTimeTab(self, ConvertToStandardizedTimeTab(self))

\* timedelta(seconds=n) for a number n given in thousandths of a second.
TimedeltaOfSeconds(n_ms) == n_ms * 1000

\* A slip in __add__: the number taken as milliseconds, not seconds.
TabAddAsMilliseconds(self, n_ms) == [self EXCEPT !.time_stamp = @ + n_ms]

\* tag + n for an int or float n: the deep copy with n seconds added to its
\* time stamp; the text and the other attributes are copied as they are.
TabAdd(self, n_ms) == [self EXCEPT !.time_stamp = @ + TimedeltaOfSeconds(n_ms)]

\* tag - n
TabSub(self, n_ms) == [self EXCEPT !.time_stamp = @ - TimedeltaOfSeconds(n_ms)]

(***************************************************************************)
(* State.                                                                  *)
(***************************************************************************)

VARIABLES
    time_tab,         \* the LyricTimeTab object the name time_tab is bound to
    constructed,      \* whether LyricTimeTab(...) has returned an object
    op,               \* the last call made ("" before the first)
    raised,           \* the exception the last call raised ("" for none)
    arg,              \* the number argument of the last call (seconds in 1/1000 s, n, max_layer)
    returned,         \* what the last call returned
    n_ops,            \* calls made on the object so far
    line,             \* the line argument of split_line_to_time_and_char
    separation_mode,  \* its time_tab_separation_mode argument
    result,           \* the list of LyricCharacter it returned
    group_a,          \* three LyricPronunciationGroup operands
    group_b,
    group_c,
    content,          \* a LyricLineContent object
    kana_tag,         \* the kana tag str handed to the decoder
    operand           \* the right operand of the last operator or comparison

tab_vars == <<time_tab, constructed>>

call_vars == <<op, raised, arg, returned, n_ops>>

split_vars == <<line, separation_mode, result>>

group_vars == <<group_a, group_b, group_c>>

content_vars == <<content, kana_tag>>

operand_vars == <<operand>>

vars == <<time_tab, constructed, op, raised, arg, returned, n_ops, line, separation_mode, result, group_a, group_b, group_c, content, kana_tag, operand>>

\* The variables of the objects a specification does not exercise.
IdleSplit == line = <<>> /\ separation_mode = "" /\ result = <<>>

IdleGroup == group_a = <<>> /\ group_b = <<>> /\ group_c = <<>>

IdleContent == content = <<>> /\ kana_tag = <<>>

\* No right operand: the calls that take none leave it so.
NoOperand == [kind |-> "", value |-> 0]

IdleOperand == operand = NoOperand

(***************************************************************************)
(* Bounds and inputs of the time tag.                                      *)
(***************************************************************************)

\* Calls made on one tag after its construction.
MaxOps == 2

LeftBrackets == {Str(<<"[">>), Str(<<"<">>)}
RightBrackets == {Str(<<"]">>), Str(<<">">>)}
MinuteTexts == {Str(<<"0", "0">>), Str(<<"0", "2">>)}
SecondTexts == {Str(<<"0", "0">>), Str(<<"5", "9">>)}
SeperatorTexts == {Str(<<".">>), Str(<<":">>)}
MillisecondTexts ==
    {Str(<<"0", "0">>), Str(<<"0", "5">>), Str(<<"5", "0">>), Str(<<"1", "2", "0">>)}

\* Texts only the loose grammars take: empty and one-digit fields, no
\* millisecond field, a millisecond field that rounds up to a microsecond.
LooseTexts ==
    {Str(<<"[", ":", "]">>),
     Str(<<"[", "7", ":", "7", "]">>),
     Str(<<"<", "0", "2", ":", "7", ".", "9", ">">>),
     Str(<<"[", ":", "5", "9", ".", "1", "2", "]">>),
     Str(<<"<", "0", "0", ":", "0", "0", ".", ">">>)}

\* The texts a tag is constructed from.
TabTexts ==
    {lb \o mi \o Str(<<":">>) \o se \o sp \o ms \o rb :
        lb \in LeftBrackets, mi \in MinuteTexts, se \in SecondTexts,
        sp \in SeperatorTexts, ms \in MillisecondTexts, rb \in RightBrackets}
    \cup LooseTexts

\* Number operands of + and -, in thousandths of a second.
NumberOperands == {1000, 2500}

(***************************************************************************)
(* The calls on a LyricTimeTab.                                            *)
(***************************************************************************)

TabInit ==
    /\ time_tab = NewTab(<<>>, "normal")
    /\ constructed = FALSE
    /\ op = ""
    /\ raised = ""
    /\ arg = 0
    /\ returned = <<>>
    /\ n_ops = 0
    /\ IdleSplit
    /\ IdleGroup
    /\ IdleOperand
    /\ IdleContent

\* time_tab = LyricTimeTab(text, (mode, None))
New(text, mode) ==
    /\ ~constructed
    /\ op = ""
    /\ LET r == LyricTimeTab(text, mode)
       IN  /\ raised' = r.raised
           /\ constructed' = (r.raised = "")
           /\ time_tab' = IF r.raised = "" THEN r.obj ELSE time_tab
    /\ op' = "__init__"
    /\ UNCHANGED <<arg, returned, n_ops>>
    /\ UNCHANGED <<split_vars, group_vars, operand_vars, content_vars>>

\* time_tab = time_tab + n   (also time_tab += n)
Add(n_ms) ==
    /\ constructed
    /\ n_ops < MaxOps
    /\ time_tab' = TabAdd(time_tab, n_ms)
    /\ op' = "__add__"
    /\ arg' = n_ms
    /\ raised' = ""
    /\ returned' = <<>>
    /\ n_ops' = n_ops + 1
    /\ UNCHANGED constructed
    /\ UNCHANGED <<split_vars, group_vars, operand_vars, content_vars>>

\* time_tab = time_tab - n
Sub(n_ms) ==
    /\ constructed
    /\ n_ops < MaxOps
    /\ time_tab' = TabSub(time_tab, n_ms)
    /\ op' = "__sub__"
    /\ arg' = n_ms
    /\ raised' = ""
    /\ returned' = <<>>
    /\ n_ops' = n_ops + 1
    /\ UNCHANGED constructed
    /\ UNCHANGED <<split_vars, group_vars, operand_vars, content_vars>>

\* time_tab.convert_to_time_tab_base_on_inner_param()
CallConvertToTimeTabBaseOnInnerParam ==
    /\ constructed
    /\ n_ops < MaxOps
    /\ returned' = ConvertToTimeTabBaseOnInnerParam(time_tab)
    /\ op' = "convert_to_time_tab_base_on_inner_param"
    /\ arg' = 0
    /\ raised' = ""
    /\ n_ops' = n_ops + 1
    /\ UNCHANGED <<time_tab, constructed>>
    /\ UNCHANGED <<split_vars, group_vars, operand_vars, content_vars>>

\* time_tab.convert_to_standardized_time_tab()
CallConvertToStandardizedTimeTab ==
    /\ constructed
    /\ n_ops < MaxOps
    /\ returned' = ConvertToStandardizedTimeTab(time_tab)
    /\ op' = "convert_to_standardized_time_tab"
    /\ arg' = 0
    /\ raised' = ""
    /\ n_ops' = n_ops + 1
    /\ UNCHANGED <<time_tab, constructed>>
    /\ UNCHANGED <<split_vars, group_vars, operand_vars, content_vars>>

\* time_tab.standardize_self()
StandardizeSelf ==
    /\ constructed
    /\ n_ops < MaxOps
    /\ LET r == StandardizeSelfOf(time_tab)
       IN  /\ time_tab' = r.obj
           /\ raised' = r.raised
    /\ op' = "standardize_self"
    /\ arg' = 0
    /\ returned' = <<>>
    /\ n_ops' = n_ops + 1
    /\ UNCHANGED constructed
    /\ UNCHANGED <<split_vars, group_vars, operand_vars, content_vars>>

TabNext ==
    \/ \E text \in TabTexts, mode \in BuiltinModes : New(text, mode)
    \/ \E n_ms \in NumberOperands : Add(n_ms)
    \/ \E n_ms \in NumberOperands : Sub(n_ms)
    \/ CallConvertToTimeTabBaseOnInnerParam
    \/ CallConvertToStandardizedTimeTab
    \/ StandardizeSelf

SpecTab == TabInit /\ [][TabNext]_vars

(***************************************************************************)
(* Properties of the time tag.                                             *)
(***************************************************************************)

\* C3: for every text a mode accepts, formatting the freshly parsed tag with
\* its own widths, brackets and seperators
\* (convert_to_time_tab_base_on_inner_param) returns the text it was parsed
\* from.
C3_RoundTrip ==
    (op = "convert_to_time_tab_base_on_inner_param" /\ n_ops = 1)
        => returned = time_tab.current_time_tab

\* C4: standardize_self is idempotent: a second standardize_self right after
\* a first one raises nothing and changes neither the text nor the duration.
C4_StandardizeIdempotent ==
    [][(op = "standardize_self" /\ raised = "" /\ op' = "standardize_self")
        => /\ raised' = ""
           /\ time_tab'.current_time_tab = time_tab.current_time_tab
           /\ time_tab'.time_stamp = time_tab.time_stamp]_vars

\* Whether a rendered tag is bracket, digits, ":", digits, ".", digits,
\* bracket with a second field below 60 and a millisecond field below 1000.
FieldsAreDigits(text) ==
    LET m == MatchAt(TIME_TAB_LOOSE_REGREX, text, 0)
    IN  /\ m.ok
        /\ m.end = Len(text)
        /\ m.minutes # <<>>
        /\ m.seconds # <<>>
        /\ m.milliseconds # <<>>
        /\ IntOfStr(m.seconds) < 60
        /\ IntOfStr(m.milliseconds) < 1000

\* C5: the standardized rendering of any duration, a negative one included,
\* raises nothing and shows only digit fields, seconds in [0, 60) and
\* milliseconds in [0, 1000).
C5_NoNegativeField ==
    op = "convert_to_standardized_time_tab"
        => (raised = "" /\ FieldsAreDigits(returned))

\* C9: tag + n has the duration of the tag plus n seconds, and "[00:00.00]"
\* plus 1 has a duration of exactly one second and formats with the widths
\* 2, 2, 2 as "[00:01.00]".
C9_AddSeconds ==
    [][op' = "__add__"
        => /\ raised' = ""
           /\ time_tab'.time_stamp = time_tab.time_stamp + arg' * 1000
           /\ (/\ n_ops = 0
               /\ time_tab.current_time_tab
                    = Str(<<"[", "0", "0", ":", "0", "0", ".", "0", "0", "]">>)
               /\ arg' = 1000)
              => /\ time_tab'.time_stamp = 1000000
                 /\ ConvertTimeTabToTimeTab(time_tab'.time_stamp, 2, 2, 2, TRUE,
                                            <<Str(<<"[">>), Str(<<"]">>)>>,
                                            <<Str(<<":">>), Str(<<".">>)>>)
                    = Str(<<"[", "0", "0", ":", "0", "1", ".", "0", "0", "]">>)]_vars

\* C9 witness: "[00:00.00]" parsed, then + 1.
C9_Witness ==
    /\ constructed
    /\ op = "__add__"
    /\ arg = 1000
    /\ n_ops = 1
    /\ time_tab.current_time_tab
         = Str(<<"[", "0", "0", ":", "0", "0", ".", "0", "0", "]">>)
    /\ time_tab.time_stamp = 1000000

(***************************************************************************)
(* LyricCharacter and the tokenizer of a lyric line.                       *)
(***************************************************************************)

\* An optional object is a sequence of at most one element: <<>> is None.
NoTimeTab == <<>>

\* LyricCharacter(character, time_tab): one character with its optional tag,
\* whose brackets the constructor sets to ('<', '>').
LyricCharacter(character, tab) ==
    [data |-> character,
     time_tab |-> IF tab = NoTimeTab THEN NoTimeTab
                  ELSE <<[tab[1] EXCEPT !.brackets = <<Str(<<"<">>), Str(<<">">>)>>]>>]

\* for char in text: result.append(LyricCharacter(character=char, time_tab=None))
Untimed(text) ==
    IF text = <<>> THEN <<>>
    ELSE [i \in 1..Len(text) |-> LyricCharacter(text[i], NoTimeTab)]

\* The characters between the previous match and the one that starts at
\* start: from prev_end at the head of the line, from prev_end + 1 after it.
CharsBetween(ln, prev_end, start) ==
    IF start >= prev_end + 1
    THEN IF prev_end = 0 THEN Slice(ln, prev_end, start)
         ELSE Slice(ln, prev_end + 1, start)
    ELSE <<>>

\* The loop over re.finditer(separation_pattern, line), from the match at the
\* head of matches on: the characters between the previous match and this
\* one (SplitStep), then the character right after this match with the
\* matched tag (SplitTagged).
RECURSIVE SplitLoop(_, _, _, _, _)
RECURSIVE SplitStep(_, _, _, _, _)
RECURSIVE SplitTagged(_, _, _, _, _)
SplitTagged(ln, mode, matches, acc, tab) ==
    IF tab.raised # ""
    THEN [raised |-> tab.raised, result |-> <<>>, prev_end |-> Head(matches).end]
    ELSE SplitLoop(ln, mode, Tail(matches), Head(matches).end,
                   acc \o <<LyricCharacter(ln[Head(matches).end + 1], <<tab.obj>>)>>)

SplitStep(ln, mode, matches, acc, m) ==
    IF m.end < Len(ln)
    THEN SplitTagged(ln, mode, matches, acc, LyricTimeTab(m.group, mode))
    ELSE SplitLoop(ln, mode, Tail(matches), m.end, acc)

SplitLoop(ln, mode, matches, prev_end, acc) ==
    IF matches = <<>> THEN [raised |-> "", result |-> acc, prev_end |-> prev_end]
    ELSE SplitStep(ln, mode, matches,
                   acc \o Untimed(CharsBetween(ln, prev_end, Head(matches).start)),
                   Head(matches))

\* The tokenizer with the closing step reading the characters from the end
\* of the last match on, the character that already took the tag included.
SplitLineTailFromPrevEnd(ln, mode) ==
    LET pattern == TIME_TAB_DIFFERENT_MODE_REGREX(mode)
        looped == SplitLoop(ln, mode, FindIter(pattern, ln, 0), 0, <<>>)
    IN  [raised |-> looped.raised,
         result |-> looped.result \o Untimed(Slice(ln, looped.prev_end, Len(ln)))]

\* The end of split_line_to_time_and_char: the characters after the last
\* match, from prev_end + 1 on.
SplitRest(ln, looped) ==
    IF looped.raised # "" THEN [raised |-> looped.raised, result |-> <<>>]
    ELSE [raised |-> "",
          result |-> IF looped.prev_end + 1 < Len(ln)
                     THEN looped.result
                          \o Untimed(Slice(ln, looped.prev_end + 1, Len(ln)))
                     ELSE looped.result]

\* LyricLineContent.split_line_to_time_and_char(line, mode) for a built-in
\* mode: the loop over the matches, then the rest of the line.
SplitLineToTimeAndChar(ln, mode) ==
    SplitRest(ln, SplitLoop(ln, mode,
                            FindIter(TIME_TAB_DIFFERENT_MODE_REGREX(mode), ln, 0),
                            0, <<>>))

\* "".join(str(char) for char in chars): the characters without their tags.
CharsText(chars) == IF chars = <<>> THEN <<>> ELSE [i \in 1..Len(chars) |-> chars[i].data]

(***************************************************************************)
(* Bounds and inputs of the tokenizer.                                     *)
(***************************************************************************)

\* Pieces a line is made of.
MaxTokens == 3

\* A latin letter, a CJK ideograph (U+4F60), tags of the strict layout in both
\* bracket styles, a tag only the loose grammars take, and a lone bracket.
LineTokens ==
    {Str(<<"a">>),
     <<20320>>,
     Str(<<"<", "0", "0", ":", "0", "0", ".", "0", "0", ">">>),
     Str(<<"[", "0", "0", ":", "0", "1", ".", "5", "0", "]">>),
     Str(<<"<", "7", ":", "7", ">">>),
     Str(<<"<">>)}

\* "1<00:00.00>あNi你他 <00:01.00>い" (あ U+3042, 你 U+4F60, 他 U+4ED6, い U+3044).
DemoLine ==
    Str(<<"1", "<", "0", "0", ":", "0", "0", ".", "0", "0", ">">>) \o <<12354>>
    \o Str(<<"N", "i">>) \o <<20320, 20182>>
    \o Str(<<" ", "<", "0", "0", ":", "0", "1", ".", "0", "0", ">">>) \o <<12356>>

TokenSeqs == UNION {[1..n -> LineTokens] : n \in 0..MaxTokens}

SplitLines == {Join(ts) : ts \in TokenSeqs} \cup {DemoLine}

(***************************************************************************)
(* The tokenizer applied to a line.                                        *)
(***************************************************************************)

SplitInit ==
    /\ line \in SplitLines
    /\ separation_mode \in BuiltinModes
    /\ result = <<>>
    /\ time_tab = NewTab(<<>>, "normal")
    /\ constructed = FALSE
    /\ op = ""
    /\ raised = ""
    /\ arg = 0
    /\ returned = <<>>
    /\ n_ops = 0
    /\ IdleGroup
    /\ IdleOperand
    /\ IdleContent

\* result = LyricLineContent.split_line_to_time_and_char(line, separation_mode)
Split ==
    /\ op = ""
    /\ LET r == SplitLineToTimeAndChar(line, separation_mode)
       IN  /\ raised' = r.raised
           /\ result' = r.result
    /\ op' = "split_line_to_time_and_char"
    /\ n_ops' = n_ops + 1
    /\ UNCHANGED <<line, separation_mode, arg, returned>>
    /\ UNCHANGED <<tab_vars, group_vars, operand_vars, content_vars>>

SplitNext == Split

SpecSplit == SplitInit /\ [][SplitNext]_vars

(***************************************************************************)
(* Properties of the tokenizer.                                            *)
(***************************************************************************)

\* The characters of ln from position pos on (0-based) that lie outside the
\* matches, which are in their order of occurrence.
RECURSIVE OutsideMatches(_, _, _)
OutsideMatches(ln, matches, pos) ==
    IF matches = <<>> THEN Slice(ln, pos, Len(ln))
    ELSE Slice(ln, pos, Head(matches).start)
         \o OutsideMatches(ln, Tail(matches), Head(matches).end)

\* C1: for every line and every built-in mode the characters the tokenizer
\* returns are, in order, exactly the characters of the line outside the tag
\* matches: none lost, none duplicated, none taken from inside a tag.
C1_TokenizerCoverage ==
    op = "split_line_to_time_and_char"
        => /\ raised = ""
           /\ CharsText(result)
                = OutsideMatches(line,
                                 FindIter(TIME_TAB_DIFFERENT_MODE_REGREX(separation_mode),
                                          line, 0),
                                 0)

\* The tokens of the demo line: '1' untagged, U+3042 with a tag of 0 ms,
\* 'N', 'i', U+4F60, U+4ED6, ' ' untagged, U+3044 with a tag of 1000 ms.
DemoLineTokens ==
    /\ Len(result) >= 8
    /\ CharsText(SubSeq(result, 1, 8))
         = Str(<<"1">>) \o <<12354>> \o Str(<<"N", "i">>) \o <<20320, 20182>>
           \o Str(<<" ">>) \o <<12356>>
    /\ \A i \in {1, 3, 4, 5, 6, 7} : result[i].time_tab = NoTimeTab
    /\ result[2].time_tab # NoTimeTab
    /\ result[2].time_tab[1].time_stamp = 0
    /\ result[8].time_tab # NoTimeTab
    /\ result[8].time_tab[1].time_stamp = 1000 * 1000

DemoLineSplit ==
    /\ op = "split_line_to_time_and_char"
    /\ line = DemoLine
    /\ separation_mode = "very_loose"

\* C8 (as stated): the demo line under very_loose yields the eight listed
\* tokens, for 9 characters in total.
C8_DemoLineNine == DemoLineSplit => (raised = "" /\ DemoLineTokens /\ Len(result) = 9)

\* C8 (amended): the demo line under very_loose yields the eight listed
\* tokens, for 8 characters in total.
C8_DemoLineEight == DemoLineSplit => (raised = "" /\ DemoLineTokens /\ Len(result) = 8)

\* C8 witness: the demo line tokenized under very_loose into 8 characters.
C8_Witness == DemoLineSplit /\ Len(result) = 8 /\ DemoLineTokens

(***************************************************************************)
(* LyricPronunciationGroup.                                                *)
(***************************************************************************)

\* CHINESE_OR_CHU_NOM_RANGES: the code point ranges of the CJKV characters.
CHINESE_OR_CHU_NOM_RANGES ==
    {<<11904, 12031>>, <<12032, 12255>>, <<19968, 40959>>, <<63744, 64255>>,
     <<194560, 195103>>, <<13312, 19903>>, <<131072, 173791>>, <<173824, 177983>>,
     <<177984, 178207>>, <<178208, 183983>>, <<183984, 191471>>, <<196608, 201551>>,
     <<201552, 205743>>, <<191472, 192095>>, <<43616, 43647>>, <<12295, 12295>>,
     <<12293, 12293>>, <<12347, 12347>>, <<131360, 131360>>, <<94179, 94179>>,
     <<11904, 11904>>}

\* LyricCharacter.is_cjkv_classmethod(c): c lies in one of the ranges.
IsCjkvClassmethod(c) == \E r \in CHINESE_OR_CHU_NOM_RANGES : r[1] <= c /\ c <= r[2]

\* pronunciation_line_list = None, and a list of groups.
NoPronunciation == [is_none |-> TRUE, items |-> <<>>]

PronunciationList(items) == [is_none |-> FALSE, items |-> items]

\* LyricPronunciationGroup(base_str, pronunciation_line_list)
LyricPronunciationGroup(base_str, pronunciation_line_list) ==
    [original_annotated_string |-> base_str,
     data |-> base_str,
     pronunciation_line_list |-> pronunciation_line_list]

\* The __add__ of two groups with the reading of the right operand dropped
\* when the left operand has none.
GroupAddLeftReadingOnly(self, other) ==
    LyricPronunciationGroup(
        self.original_annotated_string \o other.original_annotated_string,
        PronunciationList(IF self.pronunciation_line_list.is_none THEN <<>>
                          ELSE self.pronunciation_line_list.items
                               \o other.pronunciation_line_list.items))

\* self + other: the bases concatenated, the readings concatenated with None
\* read as the empty list.
GroupAdd(self, other) ==
    LET self_pronunciation_line_list ==
            IF self.pronunciation_line_list.is_none THEN <<>>
            ELSE self.pronunciation_line_list.items
        other_pronunciation_line_list ==
            IF other.pronunciation_line_list.is_none THEN <<>>
            ELSE other.pronunciation_line_list.items
    IN  LyricPronunciationGroup(
            self.original_annotated_string \o other.original_annotated_string,
            PronunciationList(self_pronunciation_line_list \o other_pronunciation_line_list))

\* group.base_str
GroupBaseStr(group) == CharsText(group.data)

\* group.get_base_str_without_number()
GetBaseStrWithoutNumber(group) == SelectSeq(GroupBaseStr(group), LAMBDA c : ~IsDigit(c))

\* group.pronunciation: "" for None, else the base_str of the reading groups.
GroupPronunciation(group) ==
    IF group.pronunciation_line_list.is_none THEN <<>>
    ELSE LET items == group.pronunciation_line_list.items
         IN  IF items = <<>> THEN <<>>
             ELSE Join([i \in 1..Len(items) |-> GroupBaseStr(items[i])])

\* group.contain_cjkv() and group.count_cjkv()
ContainCjkv(group) == \E i \in 1..Len(group.data) : IsCjkvClassmethod(group.data[i].data)

CountCjkv(group) == Cardinality({i \in 1..Len(group.data) : IsCjkvClassmethod(group.data[i].data)})

\* group.is_cjkv(): the loop over the characters breaks at the first one that
\* is not CJKV and True is returned after the break; the else branch of the
\* loop, taken when no character broke it, returns False.
IsCjkv(group) == \E i \in 1..Len(group.data) : ~IsCjkvClassmethod(group.data[i].data)

(***************************************************************************)
(* Bounds and inputs of the groups.                                        *)
(***************************************************************************)

\* Characters in the base of a group operand.
MaxBaseLen == 1

\* A latin letter, and an ideograph (U+4F60) that carries a tag.
BaseCharacters ==
    {LyricCharacter(97, NoTimeTab),
     LyricCharacter(20320,
                    <<LyricTimeTab(Str(<<"<", "0", "0", ":", "0", "1", ".", "0", "0", ">">>),
                                   "strict").obj>>)}

BaseInputs == UNION {[1..n -> BaseCharacters] : n \in 0..MaxBaseLen}

\* A reading group: kana (U+3042, U+3044) with no reading of their own.
Kana(text) == LyricPronunciationGroup(Untimed(text), NoPronunciation)

\* No reading, the empty reading, one reading group, two reading groups.
ReadingInputs ==
    {NoPronunciation,
     PronunciationList(<<>>),
     PronunciationList(<<Kana(<<12354>>)>>),
     PronunciationList(<<Kana(<<12356>>), Kana(<<12354, 12356>>)>>)}

GroupInputs ==
    {LyricPronunciationGroup(base, reading) : base \in BaseInputs, reading \in ReadingInputs}

(***************************************************************************)
(* The concatenation of three groups, in both groupings.                   *)
(***************************************************************************)

GroupInit ==
    /\ group_a \in GroupInputs
    /\ group_b \in GroupInputs
    /\ group_c \in GroupInputs
    /\ time_tab = NewTab(<<>>, "normal")
    /\ constructed = FALSE
    /\ op = ""
    /\ raised = ""
    /\ arg = 0
    /\ returned = <<>>
    /\ n_ops = 0
    /\ IdleSplit
    /\ IdleContent
    /\ IdleOperand

\* returned = ((group_a + group_b) + group_c, group_a + (group_b + group_c))
AddThree ==
    /\ op = ""
    /\ returned' = <<GroupAdd(GroupAdd(group_a, group_b), group_c),
                     GroupAdd(group_a, GroupAdd(group_b, group_c))>>
    /\ op' = "__add__"
    /\ n_ops' = n_ops + 1
    /\ UNCHANGED <<raised, arg, group_vars, operand_vars>>
    /\ UNCHANGED <<tab_vars, split_vars, content_vars>>

GroupNext == AddThree

SpecGroup == GroupInit /\ [][GroupNext]_vars

(***************************************************************************)
(* Properties of the groups.                                               *)
(***************************************************************************)

\* C6: (a + b) + c and a + (b + c) have the same base_str and the same
\* pronunciation, for groups with and without a reading.
C6_AddAssociative ==
    op = "__add__"
        => /\ GroupBaseStr(returned[1]) = GroupBaseStr(returned[2])
           /\ GroupPronunciation(returned[1]) = GroupPronunciation(returned[2])

\* C6 witness: a has no reading, b and c have one, all three have a base,
\* and both groupings read U+3042 followed by U+3044 U+3042 U+3044.
C6_Witness ==
    /\ op = "__add__"
    /\ group_a.pronunciation_line_list.is_none
    /\ group_a.data # <<>> /\ group_b.data # <<>> /\ group_c.data # <<>>
    /\ GroupPronunciation(returned[1]) = <<12354, 12356, 12354, 12356>>
    /\ GroupPronunciation(returned[2]) = <<12354, 12356, 12354, 12356>>
    /\ Len(GroupBaseStr(returned[1])) = 3

(***************************************************************************)
(* LyricLineContent: construction, rendering and the kana-tag codec.       *)
(***************************************************************************)

\* LyricLineContent(text, separation_mode): the characters the tokenizer
\* returns and one group over all of them, without a reading.
LineContentOfCharacters(r) ==
    [raised |-> r.raised,
     obj |-> [lyric_char_list |-> r.result,
              lyric_pronunciation_list |->
                  <<LyricPronunciationGroup(r.result, NoPronunciation)>>]]

LineContentFromText(text, mode) ==
    LineContentOfCharacters(SplitLineToTimeAndChar(text, mode))

\* LyricLineContent(groups): list.append(*group.original_annotated_string)
\* takes exactly one argument, so a base of any other length is a TypeError.
LineContentFromList(groups) ==
    IF \E i \in 1..Len(groups) : Len(groups[i].original_annotated_string) # 1
    THEN [raised |-> "TypeError",
          obj |-> [lyric_char_list |-> <<>>, lyric_pronunciation_list |-> groups]]
    ELSE [raised |-> "",
          obj |-> [lyric_char_list |->
                       IF groups = <<>> THEN <<>>
                       ELSE [i \in 1..Len(groups) |-> groups[i].original_annotated_string[1]],
                   lyric_pronunciation_list |-> groups]]

\* self + other and self * n: a new object from the concatenated group lists.
LineContentAdd(self, other) ==
    LineContentFromList(self.lyric_pronunciation_list \o other.lyric_pronunciation_list)

RECURSIVE Repeat(_, _)
Repeat(list, n) == IF n <= 0 THEN <<>> ELSE list \o Repeat(list, n - 1)

LineContentMul(self, n) == LineContentFromList(Repeat(self.lyric_pronunciation_list, n))

\* A setter that would rebuild the flat characters from the bases of the
\* new groups, as the constructor does.
SetPronunciationListAndCharacters(self, value) ==
    [lyric_char_list |-> IF value = <<>> THEN <<>>
                         ELSE Join([i \in 1..Len(value) |-> value[i].data]),
     lyric_pronunciation_list |-> value]

\* The pronunciation_list setter: the groups are replaced, nothing else.
SetPronunciationList(self, value) == [self EXCEPT !.lyric_pronunciation_list = value]

\* character.get_timed_character(...) as format_content calls it: the tag
\* with the widths 2, 2, 2 cut off, then the character.
GetTimedCharacter(char) ==
    IF char.time_tab = NoTimeTab THEN <<char.data>>
    ELSE ConvertTimeTabToTimeTab(char.time_tab[1].time_stamp, 2, 2, 2, TRUE,
                                 <<Str(<<"<">>), Str(<<">">>)>>,
                                 <<Str(<<":">>), Str(<<".">>)>>) \o <<char.data>>

\* max_layer = None
NoMaxLayer == -1

\* group.get_plain_text_format(max_layer, enable_time, enable_pronunciation,
\* current_layer=current_layer)
RECURSIVE GetPlainTextFormat(_, _, _, _, _)
GetPlainTextFormat(group, max_layer, enable_time, enable_pronunciation, current_layer) ==
    LET base_str ==
            IF enable_time
            THEN IF group.data = <<>> THEN <<>>
                 ELSE Join([i \in 1..Len(group.data) |-> GetTimedCharacter(group.data[i])])
            ELSE GroupBaseStr(group)
        items == group.pronunciation_line_list.items
    IN  IF /\ enable_pronunciation
           /\ max_layer # NoMaxLayer
           /\ current_layer <= max_layer
           /\ ~group.pronunciation_line_list.is_none
           /\ items # <<>>
        THEN base_str
             \o Join([i \in 1..Len(items) |->
                        Str(<<"(">>)
                        \o GetPlainTextFormat(items[i], max_layer, enable_time,
                                              enable_pronunciation, current_layer + 1)
                        \o Str(<<")">>)])
        ELSE base_str

\* format_content(max_layer, enable_time, enable_pronunciation) over a list
\* of groups.
FormatContent(groups, max_layer, enable_time, enable_pronunciation) ==
    IF groups = <<>> THEN <<>>
    ELSE Join([i \in 1..Len(groups) |->
                 GetPlainTextFormat(groups[i], max_layer, enable_time,
                                    enable_pronunciation, 0)])

\* n * "1"
RECURSIVE Ones(_)
Ones(n) == IF n <= 0 THEN <<>> ELSE Str(<<"1">>) \o Ones(n - 1)

\* What get_kana_tag appends for one group.
KanaTagOfGroup(group) ==
    IF ContainCjkv(group)
    THEN IF ~group.pronunciation_line_list.is_none
         THEN GetBaseStrWithoutNumber(group) \o Str(<<"1">>) \o Ones(CountCjkv(group))
         ELSE Ones(CountCjkv(group))
    ELSE <<>>

\* self.get_kana_tag()
GetKanaTag(self) ==
    LET groups == self.lyric_pronunciation_list
    IN  IF groups = <<>> THEN <<>>
        ELSE Join([i \in 1..Len(groups) |-> KanaTagOfGroup(groups[i])])

\* The number of consecutive non-digits of text from 0-based index k on.
RECURSIVE NonDigitRun(_, _)
NonDigitRun(text, k) ==
    IF k < Len(text) /\ ~IsDigit(text[k + 1]) THEN 1 + NonDigitRun(text, k + 1) ELSE 0

\* re.finditer(KANA_TAB_REGREX, kana_tag): the (pronunciation, num_of_char)
\* pairs, a run of non-digits followed by a non-empty run of digits.
RECURSIVE KanaTagFindIter(_, _)
KanaTagFindIter(tag, pos) ==
    LET non_digits == NonDigitRun(tag, pos)
        digits == DigitRun(tag, pos + non_digits)
    IN  IF digits = 0 THEN <<>>
        ELSE <<[pronunciation |-> Slice(tag, pos, pos + non_digits),
                num_of_char |-> IntOfStr(Slice(tag, pos + non_digits,
                                               pos + non_digits + digits))]>>
             \o KanaTagFindIter(tag, pos + non_digits + digits)

\* The loop of get_pronunciation_by_kana_tag from the character at 0-based
\* index on: pairs is what the iterator has left, buffer the non-CJKV
\* characters not yet grouped.  next() on the exhausted iterator ends the
\* loop at the head of a CJKV character and raises StopIteration in the
\* skipping loop.
RECURSIVE DecodeLoop(_, _, _, _, _)
DecodeLoop(chars, index, pairs, groups, buffer) ==
    IF index >= Len(chars) THEN [raised |-> "", groups |-> groups, buffer |-> buffer]
    ELSE IF ~IsCjkvClassmethod(chars[index + 1].data)
    THEN DecodeLoop(chars, index + 1, pairs, groups, buffer \o <<chars[index + 1]>>)
    ELSE LET flushed ==
                 IF buffer # <<>>
                 THEN groups \o <<LyricPronunciationGroup(buffer, NoPronunciation)>>
                 ELSE groups
         IN  IF pairs = <<>> THEN [raised |-> "", groups |-> flushed, buffer |-> <<>>]
             ELSE LET kana_tag_num == Head(pairs).num_of_char
                      each_cjkv_char_group == Slice(chars, index, index + kana_tag_num)
                      kana_pronunciation ==
                          LyricPronunciationGroup(Untimed(Head(pairs).pronunciation),
                                                  NoPronunciation)
                      appended ==
                          flushed \o <<LyricPronunciationGroup(
                                         each_cjkv_char_group,
                                         PronunciationList(<<kana_pronunciation>>))>>
                      rest == Tail(pairs)
                  IN  IF kana_tag_num - 1 > Len(rest)
                      THEN [raised |-> "StopIteration", groups |-> appended, buffer |-> <<>>]
                      ELSE DecodeLoop(chars, index + 1,
                                      IF kana_tag_num > 1
                                      THEN SubSeq(rest, kana_tag_num, Len(rest))
                                      ELSE rest,
                                      appended, <<>>)

\* The end of get_pronunciation_by_kana_tag: the buffer is grouped.
DecodeRest(looped) ==
    IF looped.raised # "" THEN [raised |-> looped.raised, result |-> <<>>]
    ELSE [raised |-> "",
          result |-> IF looped.buffer # <<>>
                     THEN looped.groups
                          \o <<LyricPronunciationGroup(looped.buffer, NoPronunciation)>>
                     ELSE looped.groups]

\* self.get_pronunciation_by_kana_tag(kana_tag)
GetPronunciationByKanaTag(self, tag) ==
    DecodeRest(DecodeLoop(self.lyric_char_list, 0, KanaTagFindIter(tag, 0), <<>>, <<>>))

(***************************************************************************)
(* Bounds and inputs of the line content.                                  *)
(***************************************************************************)

\* Calls made on one line content after its construction.
MaxLineOps == 2

\* U+4F60 and U+4ED6 are ideographs; a line without a tag loses its first
\* character to the tokenizer, so the texts start with a tag or with "x".
ContentTexts ==
    {<<>>,
     Str(<<"x", "a">>),
     Str(<<"<", "0", "0", ":", "0", "0", ".", "0", "0", ">">>) \o <<20320>>,
     Str(<<"x">>) \o <<20320, 20182>>,
     Str(<<"x">>) \o <<20320>> \o Str(<<"a">>) \o <<20182>>,
     Str(<<"x">>) \o <<20320, 20182, 20320, 20182, 20320>>}

\* Group lists handed to the constructor and to the pronunciation_list
\* setter: ideographs with a kana reading, latin letters without one.
GroupListInputs ==
    {<<LyricPronunciationGroup(Untimed(<<20320>>), PronunciationList(<<Kana(<<12354>>)>>))>>,
     <<LyricPronunciationGroup(Untimed(<<20320>>), PronunciationList(<<Kana(<<12354>>)>>)),
       LyricPronunciationGroup(Untimed(Str(<<"a">>)), NoPronunciation)>>,
     <<LyricPronunciationGroup(Untimed(<<20320, 20182>>),
                               PronunciationList(<<Kana(<<12354, 12356>>)>>))>>,
     <<LyricPronunciationGroup(Untimed(Str(<<"a">>)), NoPronunciation),
       LyricPronunciationGroup(Untimed(<<20182>>), NoPronunciation)>>}

\* "あ1い1う1えお2" (U+3042 U+3044 U+3046 U+3048 U+304A)
KANA_EXAMPLE ==
    <<12354>> \o Str(<<"1">>) \o <<12356>> \o Str(<<"1">>) \o <<12358>> \o Str(<<"1">>)
    \o <<12360, 12362>> \o Str(<<"2">>)

\* The example, "あ1い1", "い2" and "あ1い1う1".
KanaTagInputs ==
    {KANA_EXAMPLE,
     <<12354>> \o Str(<<"1">>) \o <<12356>> \o Str(<<"1">>),
     <<12356>> \o Str(<<"2">>),
     <<12354>> \o Str(<<"1">>) \o <<12356>> \o Str(<<"1">>) \o <<12358>> \o Str(<<"1">>)}

\* Factors of *.
MulOperands == {0, 2}

(***************************************************************************)
(* The calls on a LyricLineContent.                                        *)
(***************************************************************************)

ContentInit ==
    /\ content = [lyric_char_list |-> <<>>, lyric_pronunciation_list |-> <<>>]
    /\ kana_tag = <<>>
    /\ time_tab = NewTab(<<>>, "normal")
    /\ constructed = FALSE
    /\ op = ""
    /\ raised = ""
    /\ arg = 0
    /\ returned = <<>>
    /\ n_ops = 0
    /\ IdleSplit
    /\ IdleGroup
    /\ IdleOperand

\* content = LyricLineContent(text)
NewFromText(text) ==
    /\ ~constructed
    /\ op = ""
    /\ LET r == LineContentFromText(text, "normal")
       IN  /\ raised' = r.raised
           /\ constructed' = (r.raised = "")
           /\ content' = IF r.raised = "" THEN r.obj ELSE content
    /\ op' = "__init__"
    /\ UNCHANGED <<arg, returned, n_ops, kana_tag, time_tab>>
    /\ UNCHANGED <<split_vars, group_vars, operand_vars>>

\* content = LyricLineContent(groups)
NewFromList(groups) ==
    /\ ~constructed
    /\ op = ""
    /\ LET r == LineContentFromList(groups)
       IN  /\ raised' = r.raised
           /\ constructed' = (r.raised = "")
           /\ content' = IF r.raised = "" THEN r.obj ELSE content
    /\ op' = "__init__"
    /\ UNCHANGED <<arg, returned, n_ops, kana_tag, time_tab>>
    /\ UNCHANGED <<split_vars, group_vars, operand_vars>>

\* content.pronunciation_list = groups
AssignPronunciationList(groups) ==
    /\ constructed
    /\ n_ops < MaxLineOps
    /\ content' = SetPronunciationList(content, groups)
    /\ op' = "pronunciation_list"
    /\ raised' = ""
    /\ returned' = <<>>
    /\ n_ops' = n_ops + 1
    /\ UNCHANGED <<arg, kana_tag, tab_vars, split_vars, group_vars, operand_vars>>

\* returned = content.get_kana_tag()
CallGetKanaTag ==
    /\ constructed
    /\ n_ops < MaxLineOps
    /\ returned' = GetKanaTag(content)
    /\ op' = "get_kana_tag"
    /\ raised' = ""
    /\ n_ops' = n_ops + 1
    /\ UNCHANGED <<arg, content, kana_tag, tab_vars, split_vars, group_vars, operand_vars>>

\* returned = content.get_pronunciation_by_kana_tag(tag)
CallGetPronunciationByKanaTag(tag) ==
    /\ constructed
    /\ n_ops < MaxLineOps
    /\ LET r == GetPronunciationByKanaTag(content, tag)
       IN  /\ raised' = r.raised
           /\ returned' = r.result
    /\ kana_tag' = tag
    /\ op' = "get_pronunciation_by_kana_tag"
    /\ n_ops' = n_ops + 1
    /\ UNCHANGED <<arg, content, tab_vars, split_vars, group_vars, operand_vars>>

\* content.recover_pronunciation_by_kana_tag(tag)
RecoverPronunciationByKanaTag(tag) ==
    /\ constructed
    /\ n_ops < MaxLineOps
    /\ LET r == GetPronunciationByKanaTag(content, tag)
       IN  /\ raised' = r.raised
           /\ content' = IF r.raised = "" THEN SetPronunciationList(content, r.result)
                         ELSE content
    /\ kana_tag' = tag
    /\ returned' = <<>>
    /\ op' = "recover_pronunciation_by_kana_tag"
    /\ n_ops' = n_ops + 1
    /\ UNCHANGED <<arg, tab_vars, split_vars, group_vars, operand_vars>>

\* content = content + LyricLineContent(text)
AddContent(text) ==
    /\ constructed
    /\ n_ops < MaxLineOps
    /\ LET r == LineContentAdd(content, LineContentFromText(text, "normal").obj)
       IN  /\ raised' = r.raised
           /\ content' = IF r.raised = "" THEN r.obj ELSE content
    /\ returned' = <<>>
    /\ op' = "__add__"
    /\ n_ops' = n_ops + 1
    /\ UNCHANGED <<arg, kana_tag, tab_vars, split_vars, group_vars, operand_vars>>

\* content = content * n
MulContent(n) ==
    /\ constructed
    /\ n_ops < MaxLineOps
    /\ LET r == LineContentMul(content, n)
       IN  /\ raised' = r.raised
           /\ content' = IF r.raised = "" THEN r.obj ELSE content
    /\ arg' = n
    /\ returned' = <<>>
    /\ op' = "__mul__"
    /\ n_ops' = n_ops + 1
    /\ UNCHANGED <<kana_tag, tab_vars, split_vars, group_vars, operand_vars>>

ContentNext ==
    \/ \E text \in ContentTexts : NewFromText(text)
    \/ \E groups \in GroupListInputs : NewFromList(groups)
    \/ \E groups \in GroupListInputs : AssignPronunciationList(groups)
    \/ CallGetKanaTag
    \/ (op = "get_kana_tag" /\ CallGetPronunciationByKanaTag(returned))
    \/ \E tag \in KanaTagInputs : CallGetPronunciationByKanaTag(tag)
    \/ \E tag \in KanaTagInputs : RecoverPronunciationByKanaTag(tag)
    \/ \E text \in ContentTexts : AddContent(text)
    \/ \E n \in MulOperands : MulContent(n)

SpecContent == ContentInit /\ [][ContentNext]_vars

(***************************************************************************)
(* Properties of the line content.                                         *)
(***************************************************************************)

\* The bases of the top-level groups, concatenated in order.
GroupBases(groups) ==
    IF groups = <<>> THEN <<>> ELSE Join([i \in 1..Len(groups) |-> groups[i].data])

\* C2: after any sequence of operations on a line content, the bases of its
\* top-level groups concatenated in order are exactly its flat character
\* sequence.
C2_Partition ==
    constructed => GroupBases(content.lyric_pronunciation_list) = content.lyric_char_list

\* Every group that holds a CJKV character has a reading, and no reading
\* group has a reading of its own.
SingleLevelReadings(groups) ==
    \A i \in 1..Len(groups) :
        ContainCjkv(groups[i])
            => /\ ~groups[i].pronunciation_line_list.is_none
               /\ groups[i].pronunciation_line_list.items # <<>>
               /\ \A j \in 1..Len(groups[i].pronunciation_line_list.items) :
                     groups[i].pronunciation_line_list.items[j].pronunciation_line_list.is_none

\* C7: for a line whose CJKV groups all have a single-level reading,
\* decoding the line's own kana tag raises nothing and the decoded groups
\* render, without time tags and with readings, as the line's groups do.
C7_KanaTagRoundTrip ==
    (/\ op = "get_pronunciation_by_kana_tag"
     /\ kana_tag = GetKanaTag(content)
     /\ SingleLevelReadings(content.lyric_pronunciation_list))
        => /\ raised = ""
           /\ FormatContent(returned, 1, FALSE, TRUE)
                = FormatContent(content.lyric_pronunciation_list, 1, FALSE, TRUE)

\* The CJKV characters of a character list, and the sum of the counts of
\* the first k pairs of a kana tag.
CjkvCharacters(chars) == SelectSeq(chars, LAMBDA char : IsCjkvClassmethod(char.data))

RECURSIVE CountsSum(_, _)
CountsSum(pairs, k) == IF k <= 0 THEN 0 ELSE pairs[k].num_of_char + CountsSum(pairs, k - 1)

\* The groups of a list that have a reading.
GroupsWithReading(groups) == SelectSeq(groups, LAMBDA group : ~group.pronunciation_line_list.is_none)

\* C10: decoding a kana tag whose counts add up to the number of CJKV
\* characters of the line completes without error and returns, for each
\* (reading, count) pair in order, one group whose base is the next count
\* CJKV characters and whose reading is the pair's reading; so the example
\* "a1 i1 u1 eo2" (in kana) over five ideographs gives three one-character
\* groups and one two-character group read "eo".
C10_DecodeByCounts ==
    LET pairs == KanaTagFindIter(kana_tag, 0)
        cjkv == CjkvCharacters(content.lyric_char_list)
        decoded == GroupsWithReading(returned)
    IN  (/\ op = "get_pronunciation_by_kana_tag"
         /\ pairs # <<>>
         /\ CountsSum(pairs, Len(pairs)) = Len(cjkv))
            => /\ raised = ""
               /\ Len(decoded) = Len(pairs)
               /\ \A k \in 1..Len(pairs) :
                     /\ GroupPronunciation(decoded[k]) = pairs[k].pronunciation
                     /\ GroupBaseStr(decoded[k])
                          = CharsText(SubSeq(cjkv, CountsSum(pairs, k - 1) + 1,
                                             CountsSum(pairs, k)))

(***************************************************************************)
(* Construction of a LyricTimeTab from texts around a well-formed tag.     *)
(***************************************************************************)

\* Characters written before or after a tag.
ExtraCharacters == {Ord("x"), Ord(" "), Ord("]")}

\* Tags written without brackets.
BareTexts ==
    {Str(<<"0", "0", ":", "0", "1", ".", "0", "0">>),
     Str(<<"7", ":", "7">>),
     Str(<<":">>)}

\* The texts of TabTexts, the same with one character after or before them,
\* and the bare texts.
ParseTexts ==
    TabTexts
    \cup {text \o <<c>> : text \in TabTexts, c \in ExtraCharacters}
    \cup {<<c>> \o text : text \in TabTexts, c \in ExtraCharacters}
    \cup BareTexts

\* LyricTimeTab(text, (mode, None)) and LyricTimeTab(None, (mode, None))
ParseNext ==
    \/ \E text \in ParseTexts, mode \in BuiltinModes : New(text, mode)
    \/ \E mode \in BuiltinModes : New(None, mode)

SpecParse == TabInit /\ [][ParseNext]_vars

\* The pattern of the mode matches the whole of the text.
MatchesWhole(text, mode) ==
    LET m == MatchAt(TIME_TAB_DIFFERENT_MODE_REGREX(mode), text, 0)
    IN  m.ok /\ m.end = Len(text)

\* C11: the construction succeeds only if the whole text matches the grammar
\* of the mode: a text with an extra character after or before a well-formed
\* tag raises ValueError and no tag is created.
C11_WholeTextMatched ==
    [][\A text \in ParseTexts, mode \in BuiltinModes :
          (New(text, mode) /\ ~MatchesWhole(text, mode))
              => (raised' = "ValueError" /\ ~constructed')]_vars

\* C15: very_loose accepts every text loose accepts, and a tag written
\* without brackets too, whose bracket groups are then empty strs.
C15_VeryLooseBare ==
    [][\A text \in ParseTexts :
          New(text, "very_loose")
              => /\ LyricTimeTab(text, "loose").raised = "" => raised' = ""
                 /\ text \in BareTexts
                        => /\ raised' = ""
                           /\ constructed'
                           /\ time_tab'.brackets = <<(<<>>), (<<>>)>>]_vars

(***************************************************************************)
(* The self_defined mode: a tag and a line read with a pattern of one's    *)
(* own.                                                                    *)
(***************************************************************************)

\* split_line_to_time_and_char(line, mode, self_defined_pattern): the choice
\* of the separation pattern, then the loop and the rest of the line.  Each
\* tag is built with mode (time_tab_separation_mode, None).
SplitLineToTimeAndCharOfMode(ln, mode, self_defined_pattern) ==
    IF mode = "self_defined"
    THEN IF self_defined_pattern.is_none
         THEN [raised |-> "ValueError", result |-> <<>>]
         ELSE SplitRest(ln, SplitLoop(ln, mode, FindIter(self_defined_pattern, ln, 0),
                                      0, <<>>))
    ELSE IF mode \in BuiltinModes
    THEN SplitLineToTimeAndChar(ln, mode)
    ELSE [raised |-> "ValueError", result |-> <<>>]

\* The built-in patterns compiled as patterns of one's own.
SelfDefinedPatterns ==
    {SelfDefinedPattern(TIME_TAB_DIFFERENT_MODE_REGREX(mode)) : mode \in BuiltinModes}

SelfDefinedInit ==
    /\ line \in SplitLines
    /\ separation_mode = MODE_TYPE[5]
    /\ result = <<>>
    /\ time_tab = NewTab(<<>>, "normal")
    /\ constructed = FALSE
    /\ op = ""
    /\ raised = ""
    /\ arg = 0
    /\ returned = <<>>
    /\ n_ops = 0
    /\ IdleGroup
    /\ IdleOperand
    /\ IdleContent

\* time_tab = LyricTimeTab(line, ("self_defined", self_defined_regex))
NewSelfDefined(self_defined_regex) ==
    /\ op = ""
    /\ LET r == LyricTimeTabOfMode(line, separation_mode, self_defined_regex)
       IN  /\ raised' = r.raised
           /\ constructed' = (r.raised = "")
           /\ time_tab' = IF r.raised = "" THEN r.obj ELSE time_tab
    /\ op' = "__init__"
    /\ n_ops' = n_ops + 1
    /\ UNCHANGED <<split_vars, arg, returned>>
    /\ UNCHANGED <<group_vars, operand_vars, content_vars>>

\* result = split_line_to_time_and_char(line, "self_defined", self_defined_pattern)
SplitSelfDefined(self_defined_pattern) ==
    /\ op = ""
    /\ LET r == SplitLineToTimeAndCharOfMode(line, separation_mode, self_defined_pattern)
       IN  /\ raised' = r.raised
           /\ result' = r.result
    /\ op' = "split_line_to_time_and_char"
    /\ n_ops' = n_ops + 1
    /\ UNCHANGED <<line, separation_mode, arg, returned>>
    /\ UNCHANGED <<tab_vars, group_vars, operand_vars, content_vars>>

SelfDefinedNext ==
    \/ \E regex \in SelfDefinedPatterns \cup {NoPattern} : NewSelfDefined(regex)
    \/ \E pattern \in SelfDefinedPatterns \cup {NoPattern} : SplitSelfDefined(pattern)

SpecSelfDefined == SelfDefinedInit /\ [][SelfDefinedNext]_vars

\* The duration of the tag of every character, -1 without a tag.
TagDurations(chars) ==
    IF chars = <<>> THEN <<>>
    ELSE [i \in 1..Len(chars) |->
            IF chars[i].time_tab = NoTimeTab THEN -1
            ELSE chars[i].time_tab[1].time_stamp]

\* C16: with a pattern that has the seven named groups, the self_defined mode
\* reads a tag and a line as the built-in mode of that pattern does: the
\* same acceptance, duration, brackets and seperators of a tag, the same
\* characters and tag durations of a line.
C16_SelfDefinedUsable ==
    [][\A mode \in BuiltinModes :
          LET pattern == SelfDefinedPattern(TIME_TAB_DIFFERENT_MODE_REGREX(mode))
              tab == LyricTimeTab(line, mode)
              chars == SplitLineToTimeAndChar(line, mode)
          IN  /\ NewSelfDefined(pattern)
                    => /\ raised' = tab.raised
                       /\ raised' = ""
                            => /\ time_tab'.time_stamp = tab.obj.time_stamp
                               /\ time_tab'.brackets = tab.obj.brackets
                               /\ time_tab'.minutes_seconds_seperator
                                    = tab.obj.minutes_seconds_seperator
                               /\ time_tab'.seconds_milliseconds_seperator
                                    = tab.obj.seconds_milliseconds_seperator
              /\ SplitSelfDefined(pattern)
                    => /\ raised' = chars.raised
                       /\ CharsText(result') = CharsText(chars.result)
                       /\ TagDurations(result') = TagDurations(chars.result)]_vars

(***************************************************************************)
(* The operators and the comparisons of a LyricTimeTab.                    *)
(***************************************************************************)

\* A right operand is [kind, value]: a LyricTimeTab with its time stamp in
\* microseconds, an int or a float in thousandths of a second, a
\* datetime.timedelta in microseconds, a str, None, or the class
\* LyricTimeTab itself.
DurationKinds == {"LyricTimeTab", "int", "float", "timedelta"}

\* The timedelta __OperatorIntFloadGuard hands to the operator: the time
\* stamp of a tag, timedelta(seconds=other) of a number, a timedelta as is.
OperandTimedelta(o) ==
    IF o.kind \in {"int", "float"} THEN TimedeltaOfSeconds(o.value) ELSE o.value

\* Python's // and % on integers, the divisor of either sign.
FloorDiv(a, b) == IF b > 0 THEN a \div b ELSE (-a) \div (-b)

PyMod(a, b) == IF b > 0 THEN a % b ELSE -((-a) % (-b))

\* An exception out of an operator.
OperatorRaises(exception) == [raised |-> exception, type |-> "", value |-> 0]

\* The in-place operators with every division or modulo by a zero timedelta
\* giving a zero result.
InplaceOperatorZeroQuotient(name, a, b) ==
    CASE name = "__add__" -> [raised |-> "", type |-> "timedelta", value |-> a + b]
      [] name = "__sub__" -> [raised |-> "", type |-> "timedelta", value |-> a - b]
      [] name = "__mul__" -> OperatorRaises("TypeError")
      [] name = "__truediv__" ->
            [raised |-> "", type |-> "float", value |-> IF b = 0 THEN 0 ELSE FloorDiv(a, b)]
      [] name = "__floordiv__" ->
            [raised |-> "", type |-> "int", value |-> IF b = 0 THEN 0 ELSE FloorDiv(a, b)]
      [] name = "__mod__" ->
            [raised |-> "", type |-> "timedelta", value |-> IF b = 0 THEN 0 ELSE PyMod(a, b)]
      [] name = "__pow__" -> OperatorRaises("TypeError")

\* self.time_stamp <op>= other for two timedeltas a and b: the type and the
\* value of the result, or the exception.  timedelta has no * and no ** with
\* a timedelta; / gives a float (its whole part is kept here), // an int and
\* % a timedelta, each raising ZeroDivisionError for a zero b.
InplaceOperator(name, a, b) ==
    CASE name = "__add__" -> [raised |-> "", type |-> "timedelta", value |-> a + b]
      [] name = "__sub__" -> [raised |-> "", type |-> "timedelta", value |-> a - b]
      [] name = "__mul__" -> OperatorRaises("TypeError")
      [] name = "__truediv__" ->
            IF b = 0 THEN OperatorRaises("ZeroDivisionError")
            ELSE [raised |-> "", type |-> "float", value |-> FloorDiv(a, b)]
      [] name = "__floordiv__" ->
            IF b = 0 THEN OperatorRaises("ZeroDivisionError")
            ELSE [raised |-> "", type |-> "int", value |-> FloorDiv(a, b)]
      [] name = "__mod__" ->
            IF b = 0 THEN OperatorRaises("ZeroDivisionError")
            ELSE [raised |-> "", type |-> "timedelta", value |-> PyMod(a, b)]
      [] name = "__pow__" -> OperatorRaises("TypeError")

\* The time_stamp setter: var_type_guard lets a timedelta through and raises
\* TypeError for a float or an int.
SetTimeStamp(self, r) ==
    IF r.type = "timedelta"
    THEN [raised |-> "", obj |-> [self EXCEPT !.time_stamp = r.value]]
    ELSE [raised |-> "TypeError", obj |-> self]

\* The decorated operator after the in-place operation.
OperatorAssign(self, r) ==
    IF r.raised # "" THEN [raised |-> r.raised, obj |-> self] ELSE SetTimeStamp(self, r)

\* self <op> other through __OperatorIntFloadGuard: TypeError for an operand
\* that is no tag, number or timedelta; else the operator on a deep copy of
\* self, which is returned.
ApplyOperator(self, name, o) ==
    IF o.kind \notin DurationKinds
    THEN [raised |-> "TypeError", obj |-> self]
    ELSE OperatorAssign(self, InplaceOperator(name, self.time_stamp, OperandTimedelta(o)))

\* What a comparison returns or raises.
Returns(v) == [raised |-> "", value |-> v]

NotComparable == [raised |-> "TypeError", value |-> FALSE]

\* not r
Negated(r) == IF r.raised # "" THEN r ELSE Returns(~r.value)

\* __eq__: the time stamps of two tags, total_seconds() against a number; for
\* the class LyricTimeTab itself the time stamp is compared with the class's
\* property object, which is False; TypeError for anything else.
TabEq(self, o) ==
    IF o.kind = "LyricTimeTab" THEN Returns(self.time_stamp = o.value)
    ELSE IF o.kind \in {"int", "float"}
    THEN Returns(self.time_stamp = TimedeltaOfSeconds(o.value))
    ELSE IF o.kind = "class LyricTimeTab" THEN Returns(FALSE)
    ELSE NotComparable

\* __lt__
TabLt(self, o) ==
    IF o.kind = "LyricTimeTab" THEN Returns(self.time_stamp < o.value)
    ELSE IF o.kind \in {"int", "float"}
    THEN Returns(self.time_stamp < TimedeltaOfSeconds(o.value))
    ELSE NotComparable

\* Comparable.__ne__: not self == other
TabNe(self, o) == Negated(TabEq(self, o))

\* Comparable.__gt__: (not self < other) and self != other
TabGtOf(self, o, lt) ==
    IF lt.raised # "" THEN lt ELSE IF lt.value THEN Returns(FALSE) ELSE TabNe(self, o)

TabGt(self, o) == TabGtOf(self, o, TabLt(self, o))

\* Comparable.__le__: self < other or self == other
TabLeOf(self, o, lt) ==
    IF lt.raised # "" THEN lt ELSE IF lt.value THEN Returns(TRUE) ELSE TabEq(self, o)

TabLe(self, o) == TabLeOf(self, o, TabLt(self, o))

\* Comparable.__ge__: not self < other
TabGe(self, o) == Negated(TabLt(self, o))

\* The texts of the left operands and of the tags among the right ones.
ArithTexts ==
    {Str(<<"[", "0", "0", ":", "0", "0", ".", "0", "0", "]">>),
     Str(<<"[", "0", "0", ":", "0", "3", ".", "0", "0", "]">>),
     Str(<<"<", "0", "2", ":", "5", "9", ".", "5", "0", ">">>)}

TagOperands ==
    {[kind |-> "LyricTimeTab", value |-> LyricTimeTab(text, "strict").obj.time_stamp] :
        text \in ArithTexts}

Operands ==
    TagOperands
    \cup {[kind |-> "int", value |-> n] : n \in {0, 2000, 3000, -1000}}
    \cup {[kind |-> "float", value |-> n] : n \in {2500}}
    \cup {[kind |-> "timedelta", value |-> d] : d \in {0, 2000000, 179005000}}
    \cup {[kind |-> k, value |-> 0] : k \in {"str", "NoneType", "class LyricTimeTab"}}

OperatorNames ==
    {"__add__", "__sub__", "__mul__", "__truediv__", "__floordiv__", "__mod__", "__pow__"}

\* returned = time_tab <op> operand
Operator(name, o) ==
    /\ constructed
    /\ n_ops < MaxOps
    /\ LET r == ApplyOperator(time_tab, name, o)
       IN  /\ raised' = r.raised
           /\ returned' = IF r.raised = "" THEN <<r.obj>> ELSE <<>>
    /\ op' = name
    /\ operand' = o
    /\ n_ops' = n_ops + 1
    /\ UNCHANGED <<tab_vars, arg>>
    /\ UNCHANGED <<split_vars, group_vars, content_vars>>

\* returned = the six comparisons of time_tab with operand, each with what
\* it returns or raises.
Compare(o) ==
    /\ constructed
    /\ n_ops < MaxOps
    /\ returned' = <<[lt |-> TabLt(time_tab, o), le |-> TabLe(time_tab, o),
                     eq |-> TabEq(time_tab, o), ne |-> TabNe(time_tab, o),
                     gt |-> TabGt(time_tab, o), ge |-> TabGe(time_tab, o)]>>
    /\ op' = "compare"
    /\ operand' = o
    /\ raised' = ""
    /\ n_ops' = n_ops + 1
    /\ UNCHANGED <<tab_vars, arg>>
    /\ UNCHANGED <<split_vars, group_vars, content_vars>>

ArithNext ==
    \/ \E text \in ArithTexts, mode \in BuiltinModes : New(text, mode)
    \/ \E name \in OperatorNames, o \in Operands : Operator(name, o)
    \/ \E o \in Operands : Compare(o)

SpecArith == TabInit /\ [][ArithNext]_vars

\* C12: +, -, *, /, % and ** with a tag, a number of seconds or a timedelta
\* on the right (not a zero one for / and %) return a tag with the combined
\* duration and the brackets, seperators and widths of the left operand.
C12_OperatorsReturnTag ==
    (/\ op \in {"__add__", "__sub__", "__mul__", "__truediv__", "__mod__", "__pow__"}
     /\ operand.kind \in DurationKinds
     /\ ~(op \in {"__truediv__", "__mod__"} /\ OperandTimedelta(operand) = 0))
        => /\ raised = ""
           /\ Len(returned) = 1
           /\ returned[1] = [time_tab EXCEPT !.time_stamp = returned[1].time_stamp]
           /\ op = "__add__"
                => returned[1].time_stamp = time_tab.time_stamp + OperandTimedelta(operand)
           /\ op = "__sub__"
                => returned[1].time_stamp = time_tab.time_stamp - OperandTimedelta(operand)
           /\ op = "__mod__"
                => returned[1].time_stamp
                     = PyMod(time_tab.time_stamp, OperandTimedelta(operand))

\* C13: / , // and % by a zero duration (a tag of duration 0, the number 0, a
\* zero timedelta) raise ZeroDivisionError and return no tag.
C13_DivisionByZero ==
    (/\ op \in {"__truediv__", "__floordiv__", "__mod__"}
     /\ operand.kind \in DurationKinds
     /\ OperandTimedelta(operand) = 0)
        => (raised = "ZeroDivisionError" /\ returned = <<>>)

\* C13 witness: a tag divided by the number 0.
C13_Witness ==
    /\ op = "__truediv__"
    /\ operand = [kind |-> "int", value |-> 0]
    /\ raised = "ZeroDivisionError"
    /\ returned = <<>>

\* C14: the comparisons order two tags by duration as a total order, and
\* every comparison with a value that is neither a tag nor a number raises
\* TypeError.
C14_TotalOrder ==
    op = "compare"
        => LET c == returned[1]
               a == time_tab.time_stamp
               b == operand.value
           IN  /\ operand.kind = "LyricTimeTab"
                    => /\ \A r \in {c.lt, c.le, c.eq, c.ne, c.gt, c.ge} : r.raised = ""
                       /\ c.lt.value <=> a < b
                       /\ c.eq.value <=> a = b
                       /\ c.gt.value <=> a > b
                       /\ c.ne.value <=> a # b
                       /\ c.le.value <=> ~c.gt.value
                       /\ c.ge.value <=> ~c.lt.value
               /\ operand.kind \notin {"LyricTimeTab", "int", "float"}
                    => \A r \in {c.lt, c.le, c.eq, c.ne, c.gt, c.ge} :
                          r.raised = "TypeError"

(***************************************************************************)
(* Concatenation and repetition of line contents.                          *)
(***************************************************************************)

\* C17: a + b has the characters of a followed by those of b and the groups
\* of a followed by those of b, a * n repeats characters and groups n times,
\* and neither raises, whatever the lengths of the groups' bases.
C17_LineAddMul ==
    [][/\ \A text \in ContentTexts :
            AddContent(text)
                => LET b == LineContentFromText(text, "normal").obj
                   IN  /\ raised' = ""
                       /\ content'.lyric_char_list
                            = content.lyric_char_list \o b.lyric_char_list
                       /\ content'.lyric_pronunciation_list
                            = content.lyric_pronunciation_list
                              \o b.lyric_pronunciation_list
       /\ \A n \in MulOperands :
            MulContent(n)
                => /\ raised' = ""
                   /\ content'.lyric_char_list = Repeat(content.lyric_char_list, n)
                   /\ content'.lyric_pronunciation_list
                        = Repeat(content.lyric_pronunciation_list, n)]_vars

(***************************************************************************)
(* The calls on a LyricPronunciationGroup: +, * and the plain text.        *)
(***************************************************************************)

\* self * n: the base repeated, and the reading repeated.  The reading of a
\* group without one is None, and None * n is a TypeError; a negative n
\* repeats a list zero times.
GroupMul(self, n) ==
    IF self.pronunciation_line_list.is_none
    THEN [raised |-> "TypeError", obj |-> self]
    ELSE [raised |-> "",
          obj |-> LyricPronunciationGroup(
                      Repeat(self.original_annotated_string, n),
                      PronunciationList(Repeat(self.pronunciation_line_list.items, n)))]

\* The base text get_plain_text_format starts from: the characters with
\* their tags when enable_time, else the characters alone.
TimedBaseStr(group, enable_time) ==
    IF enable_time
    THEN IF group.data = <<>> THEN <<>>
         ELSE Join([i \in 1..Len(group.data) |-> GetTimedCharacter(group.data[i])])
    ELSE GroupBaseStr(group)

\* Reading groups that have a reading of their own, one and two levels deep.
NestedReading == LyricPronunciationGroup(Untimed(<<12354>>), PronunciationList(<<Kana(Str(<<"a">>))>>))

DeepReading == LyricPronunciationGroup(Untimed(<<12356>>), PronunciationList(<<NestedReading>>))

RenderGroups ==
    GroupInputs
    \cup {LyricPronunciationGroup(base, PronunciationList(<<reading>>)) :
            base \in BaseInputs, reading \in {NestedReading, DeepReading}}

\* max_layer (None included), current_layer and n of the calls.
MaxLayers == {NoMaxLayer, 0, 1, 2}

CurrentLayers == {0, 1, 2}

GroupMulOperands == {-1, 0, 1, 2}

GroupCallsInit ==
    /\ group_a \in RenderGroups
    /\ group_b \in GroupInputs
    /\ group_c = <<>>
    /\ time_tab = NewTab(<<>>, "normal")
    /\ constructed = FALSE
    /\ op = ""
    /\ raised = ""
    /\ arg = 0
    /\ returned = <<>>
    /\ n_ops = 0
    /\ IdleSplit
    /\ IdleContent
    /\ IdleOperand

\* returned = group_a + group_b
AddTwo ==
    /\ op = ""
    /\ returned' = <<GroupAdd(group_a, group_b)>>
    /\ op' = "__add__"
    /\ n_ops' = n_ops + 1
    /\ UNCHANGED <<raised, arg, group_vars, operand_vars>>
    /\ UNCHANGED <<tab_vars, split_vars, content_vars>>

\* returned = group_a * n
MulGroup(n) ==
    /\ op = ""
    /\ LET r == GroupMul(group_a, n)
       IN  /\ raised' = r.raised
           /\ returned' = IF r.raised = "" THEN <<r.obj>> ELSE <<>>
    /\ arg' = n
    /\ op' = "__mul__"
    /\ n_ops' = n_ops + 1
    /\ UNCHANGED <<group_vars, operand_vars>>
    /\ UNCHANGED <<tab_vars, split_vars, content_vars>>

\* returned = group_a.get_plain_text_format(max_layer, enable_time,
\*                enable_pronunciation, current_layer=current_layer)
Render(max_layer, enable_time, enable_pronunciation, current_layer) ==
    /\ op = ""
    /\ op' = "get_plain_text_format"
    /\ arg' = max_layer
    /\ raised' = ""
    /\ returned' = <<GetPlainTextFormat(group_a, max_layer, enable_time,
                                        enable_pronunciation, current_layer)>>
    /\ n_ops' = n_ops + 1
    /\ UNCHANGED <<group_vars, operand_vars>>
    /\ UNCHANGED <<tab_vars, split_vars, content_vars>>

\* returned = (group_a.is_cjkv(), group_a.contain_cjkv(), group_a.count_cjkv())
CjkvQueries ==
    /\ op = ""
    /\ op' = "cjkv"
    /\ raised' = ""
    /\ returned' = <<[is_cjkv |-> IsCjkv(group_a),
                      contain_cjkv |-> ContainCjkv(group_a),
                      count_cjkv |-> CountCjkv(group_a)]>>
    /\ n_ops' = n_ops + 1
    /\ UNCHANGED <<arg, group_vars, operand_vars>>
    /\ UNCHANGED <<tab_vars, split_vars, content_vars>>

GroupCallsNext ==
    \/ AddTwo
    \/ CjkvQueries
    \/ \E n \in GroupMulOperands : MulGroup(n)
    \/ \E max_layer \in MaxLayers, enable_time \in BOOLEAN,
          enable_pronunciation \in BOOLEAN, current_layer \in CurrentLayers :
            Render(max_layer, enable_time, enable_pronunciation, current_layer)

SpecGroupCalls == GroupCallsInit /\ [][GroupCallsNext]_vars

\* The reading of a group with None read as the empty list.
ReadingOrEmpty(group) ==
    IF group.pronunciation_line_list.is_none THEN <<>>
    ELSE group.pronunciation_line_list.items

\* C18: with readings enabled the reading is rendered, each child at depth
\* + 1 in "(" ")" after the base text, exactly when the group has a reading
\* and max_layer is None or current_layer < max_layer; in every other case
\* the base text alone is rendered, and nothing is raised.
C18_RenderReading ==
    [][\A max_layer \in MaxLayers, enable_time \in BOOLEAN,
          enable_pronunciation \in BOOLEAN, current_layer \in CurrentLayers :
          Render(max_layer, enable_time, enable_pronunciation, current_layer)
              => LET items == ReadingOrEmpty(group_a)
                     rendered ==
                        /\ enable_pronunciation
                        /\ ~group_a.pronunciation_line_list.is_none
                        /\ (max_layer = NoMaxLayer \/ current_layer < max_layer)
                 IN  /\ raised' = ""
                     /\ returned'
                          = <<TimedBaseStr(group_a, enable_time)
                              \o (IF rendered /\ items # <<>>
                                  THEN Join([i \in 1..Len(items) |->
                                               Str(<<"(">>)
                                               \o GetPlainTextFormat(
                                                    items[i], max_layer, enable_time,
                                                    enable_pronunciation, current_layer + 1)
                                               \o Str(<<")">>)])
                                  ELSE <<>>)>>]_vars

\* C19: a + b has the base of a followed by the base of b and the reading of
\* a followed by the reading of b, an absent reading read as empty; its
\* reading is None when neither a nor b has one, and a reading that is
\* present is not the empty list.
C19_GroupAdd ==
    op = "__add__"
        => LET r == returned[1]
               both_none == /\ group_a.pronunciation_line_list.is_none
                            /\ group_b.pronunciation_line_list.is_none
           IN  /\ r.data = group_a.data \o group_b.data
               /\ ReadingOrEmpty(r) = ReadingOrEmpty(group_a) \o ReadingOrEmpty(group_b)
               /\ both_none => r.pronunciation_line_list.is_none
               /\ ~r.pronunciation_line_list.is_none
                    => r.pronunciation_line_list.items # <<>>

\* C20: g * n for n >= 0 is a group with the base of g repeated n times and
\* the reading of g repeated n times, or no reading when g has none; a
\* negative n is rejected.
C20_GroupMul ==
    op = "__mul__"
        => /\ arg >= 0
                => /\ raised = ""
                   /\ Len(returned) = 1
                   /\ returned[1].data = Repeat(group_a.data, arg)
                   /\ returned[1].pronunciation_line_list.is_none
                        = group_a.pronunciation_line_list.is_none
                   /\ ReadingOrEmpty(returned[1]) = Repeat(ReadingOrEmpty(group_a), arg)
           /\ arg < 0 => (raised # "" /\ returned = <<>>)

\* C21: is_cjkv is true iff every character of the base is in the range
\* table, contain_cjkv iff at least one is, count_cjkv is how many are; so
\* is_cjkv implies that count_cjkv is the length of the base.
C21_CjkvQueries ==
    op = "cjkv"
        => LET r == returned[1]
               cjkv == {i \in 1..Len(group_a.data) :
                          \E range \in CHINESE_OR_CHU_NOM_RANGES :
                              /\ range[1] <= group_a.data[i].data
                              /\ group_a.data[i].data <= range[2]}
           IN  /\ r.is_cjkv = (cjkv = 1..Len(group_a.data))
               /\ r.contain_cjkv = (cjkv # {})
               /\ r.count_cjkv = Cardinality(cjkv)
               /\ r.is_cjkv => r.count_cjkv = Len(group_a.data)

\* C22: get_kana_tag writes, for each group that holds CJKV characters, the
\* base text of the group's immediate reading (nothing when it has no
\* reading) followed by the number of its CJKV characters in decimal
\* digits, and nothing for a group without CJKV characters.
C22_KanaTagText ==
    op = "get_kana_tag"
        => LET groups == content.lyric_pronunciation_list
               cjkv(group) == Len(CjkvCharacters(group.data))
               pair(group) ==
                   IF cjkv(group) = 0 THEN <<>>
                   ELSE GroupPronunciation(group) \o StrOfInt(cjkv(group))
           IN  returned = IF groups = <<>> THEN <<>>
                          ELSE Join([i \in 1..Len(groups) |-> pair(groups[i])])

\* C23: when the kana tag has fewer pairs than the line has CJKV characters,
\* get_pronunciation_by_kana_tag raises nothing, whatever the counts of the
\* pairs are, and returns the groups built so far: their bases are the first
\* characters of the line, the remaining ones are dropped.
C23_DecodeStopsEarly ==
    LET pairs == KanaTagFindIter(kana_tag, 0)
        chars == content.lyric_char_list
        bases == GroupBases(returned)
    IN  (/\ op = "get_pronunciation_by_kana_tag"
         /\ Len(pairs) < Len(CjkvCharacters(chars)))
            => /\ raised = ""
               /\ Len(bases) < Len(chars)
               /\ bases = SubSeq(chars, 1, Len(bases))

\* C24: the tokenizer binds a tag match to the character right after its
\* closing bracket only when there is one before the next match or the end
\* of the line; a tag directly followed by another tag, or at the end of the
\* line, binds nothing.  So the tagged characters of the output are, in
\* order, the characters that follow such matches, each with the duration
\* of the match right before it.
C24_TagBinding ==
    op = "split_line_to_time_and_char"
        => LET matches == FindIter(TIME_TAB_DIFFERENT_MODE_REGREX(separation_mode), line, 0)
               binds(k) ==
                   /\ matches[k].end < Len(line)
                   /\ (k < Len(matches) => matches[k + 1].start > matches[k].end)
               binding == SelectSeq([k \in 1..Len(matches) |-> k], binds)
               tagged == SelectSeq(result, LAMBDA char : char.time_tab # NoTimeTab)
           IN  /\ raised = ""
               /\ Len(tagged) = Len(binding)
               /\ \A j \in 1..Len(binding) :
                     /\ tagged[j].data = line[matches[binding[j]].end + 1]
                     /\ tagged[j].time_tab[1].time_stamp
                          = TimeStampOfMatch(matches[binding[j]])

\* C25: LyricTimeTab(None, mode) constructs a tag that denotes the absence
\* of a timing: its duration, brackets, separators and field widths are all
\* None.
C25_NoneTag ==
    [][\A mode \in BuiltinModes :
          New(None, mode)
              => /\ raised' = ""
                 /\ constructed'
                 /\ time_tab'.current_time_tab = None
                 /\ time_tab'.time_stamp = None
                 /\ time_tab'.brackets = <<None, None>>
                 /\ time_tab'.minutes_seconds_seperator = None
                 /\ time_tab'.seconds_milliseconds_seperator = None
                 /\ time_tab'.min_len_of_minutes = None
                 /\ time_tab'.min_len_of_seconds = None
                 /\ time_tab'.len_of_millisecond = None]_vars

(***************************************************************************)
(* A tag under arithmetic, shift_time and assignments of time_stamp.       *)
(***************************************************************************)

\* self.shift_time(minutes, seconds, milliseconds): the timedelta of the
\* arguments is added to time_stamp through its setter; self is returned.
ShiftTimeOf(self, minutes, seconds, milliseconds) ==
    [self EXCEPT !.time_stamp = @ + (minutes * CONVERSION_TIME_60 + seconds) * 1000000
                                  + milliseconds * 1000]

\* Arguments of shift_time, and timedeltas assigned to time_stamp.
ShiftMinutes == {0, 1}

ShiftSeconds == {-1, 0, 2}

ShiftMilliseconds == {0, 500}

TimeStampValues == {0, 1500000, 61000000}

\* time_tab.shift_time(minutes, seconds, milliseconds)
ShiftTime(minutes, seconds, milliseconds) ==
    /\ constructed
    /\ n_ops < MaxOps
    /\ time_tab' = ShiftTimeOf(time_tab, minutes, seconds, milliseconds)
    /\ op' = "shift_time"
    /\ raised' = ""
    /\ n_ops' = n_ops + 1
    /\ UNCHANGED <<constructed, arg, returned>>
    /\ UNCHANGED <<split_vars, group_vars, operand_vars, content_vars>>

\* time_tab.time_stamp = value, for a timedelta value
AssignTimeStamp(value) ==
    /\ constructed
    /\ n_ops < MaxOps
    /\ LET r == SetTimeStamp(time_tab, [raised |-> "", type |-> "timedelta", value |-> value])
       IN  /\ raised' = r.raised
           /\ time_tab' = r.obj
    /\ op' = "time_stamp"
    /\ n_ops' = n_ops + 1
    /\ UNCHANGED <<constructed, arg, returned>>
    /\ UNCHANGED <<split_vars, group_vars, operand_vars, content_vars>>

ShiftNext ==
    \/ \E text \in ArithTexts, mode \in BuiltinModes : New(text, mode)
    \/ \E n_ms \in NumberOperands : Add(n_ms)
    \/ \E n_ms \in NumberOperands : Sub(n_ms)
    \/ \E minutes \in ShiftMinutes, seconds \in ShiftSeconds,
          milliseconds \in ShiftMilliseconds : ShiftTime(minutes, seconds, milliseconds)
    \/ \E value \in TimeStampValues : AssignTimeStamp(value)

SpecShift == TabInit /\ [][ShiftNext]_vars

\* C26: in every state of a tag reached by its construction and any
\* sequence of arithmetic operators, shift_time calls and assignments of
\* time_stamp, the text of the tag (current_time_tab, what str() returns)
\* denotes its duration: parsing the text under the mode of the tag gives
\* time_stamp.
C26_TextDenotesDuration ==
    constructed
        => LET m == MatchAt(TIME_TAB_DIFFERENT_MODE_REGREX(time_tab.mode),
                            time_tab.current_time_tab, 0)
           IN  m.ok /\ TimeStampOfMatch(m) = time_tab.time_stamp

(***************************************************************************)
(* Assignments of current_time_tab and mode.                               *)
(***************************************************************************)

\* Texts assigned and constructed from: tags of the strict and of the loose
\* layout, a tag with a character after it, and a text that is no tag.
AssignTexts ==
    {Str(<<"[", "0", "0", ":", "0", "3", ".", "0", "0", "]">>),
     Str(<<"<", "0", "1", ":", "0", "2", ".", "5", "0", ">">>),
     Str(<<"[", "7", ":", "7", "]">>),
     Str(<<"[", "0", "0", ":", "0", "3", ".", "0", "0", "]", "x">>),
     Str(<<"x", "x">>)}

\* time_tab.current_time_tab = value
AssignCurrentTimeTab(value) ==
    /\ constructed
    /\ n_ops < MaxOps
    /\ op' = "current_time_tab"
    /\ LET r == SetCurrentTimeTab(time_tab, value)
       IN  /\ raised' = r.raised
           /\ time_tab' = r.obj
    /\ n_ops' = n_ops + 1
    /\ UNCHANGED <<constructed, arg, returned>>
    /\ UNCHANGED <<split_vars, group_vars, operand_vars, content_vars>>

\* time_tab.mode = (value, None)
AssignMode(value) ==
    /\ constructed
    /\ n_ops < MaxOps
    /\ op' = "mode"
    /\ LET r == SetMode(time_tab, value)
       IN  /\ raised' = r.raised
           /\ time_tab' = r.obj
    /\ n_ops' = n_ops + 1
    /\ UNCHANGED <<constructed, arg, returned>>
    /\ UNCHANGED <<split_vars, group_vars, operand_vars, content_vars>>

AssignNext ==
    \/ \E text \in AssignTexts, mode \in BuiltinModes : New(text, mode)
    \/ \E value \in AssignTexts \cup {None} : AssignCurrentTimeTab(value)
    \/ \E i \in 1..Len(MODE_TYPE) : AssignMode(MODE_TYPE[i])

SpecAssign == TabInit /\ [][AssignNext]_vars

\* C27: an assignment of current_time_tab or of mode that raises because
\* the text does not match the grammar leaves the tag as it was before:
\* text, mode, duration, brackets, separators and field widths are
\* unchanged.
C27_FailedAssignmentKeepsTag ==
    [][(op' \in {"current_time_tab", "mode"} /\ raised' = "ValueError")
          => time_tab' = time_tab]_vars

(***************************************************************************)
(* A duration formatted with the standard widths and parsed again.         *)
(***************************************************************************)

\* Durations below 100 minutes that are a whole number of centiseconds, in
\* microseconds; up to half an hour, which a 32-bit integer holds.
CanonicalDurations ==
    {(minutes * CONVERSION_TIME_60 + seconds) * 1000000 + centiseconds * 10000 :
        minutes \in {0, 1, 30}, seconds \in {0, 7, 59},
        centiseconds \in {0, 1, 5, 9, 10, 50, 99}}

FormatInit ==
    /\ arg \in CanonicalDurations
    /\ time_tab = NewTab(<<>>, "normal")
    /\ constructed = FALSE
    /\ op = ""
    /\ raised = ""
    /\ returned = <<>>
    /\ n_ops = 0
    /\ IdleSplit
    /\ IdleGroup
    /\ IdleOperand
    /\ IdleContent

\* returned = LyricTimeTab.convert_time_tab_to_time_tab_classmethod(
\*                timedelta(microseconds=arg), 2, 2, 2, True, ("[", "]"), (":", "."))
\* time_tab = LyricTimeTab(returned, ("strict", None))
FormatThenParse ==
    /\ op = ""
    /\ op' = "convert_time_tab_to_time_tab_classmethod"
    /\ LET text == ConvertTimeTabToTimeTab(arg, STANDARD_MINUTES_LEN, STANDARD_SECONDS_LEN,
                                           STANDARD_MILLISECONDS_LEN, TRUE,
                                           <<Str(<<"[">>), Str(<<"]">>)>>,
                                           <<STANDARD_MINUTES_SECONDS_SEPERATOR,
                                             STANDARD_SECONDS_MILLISECONDS_SEPERATOR>>)
           r == LyricTimeTab(text, "strict")
       IN  /\ returned' = <<text>>
           /\ raised' = r.raised
           /\ constructed' = (r.raised = "")
           /\ time_tab' = IF r.raised = "" THEN r.obj ELSE time_tab
    /\ n_ops' = n_ops + 1
    /\ UNCHANGED arg
    /\ UNCHANGED <<split_vars, group_vars, operand_vars, content_vars>>

FormatNext == FormatThenParse

SpecFormat == FormatInit /\ [][FormatNext]_vars

\* C28: a non-negative duration below 100 minutes that is a whole number of
\* centiseconds, formatted with the widths (2, 2, 2) with truncation and
\* parsed under the strict mode, gives the same duration.
C28_FormatThenParse ==
    op = "convert_time_tab_to_time_tab_classmethod"
        => (raised = "" /\ constructed /\ time_tab.time_stamp = arg)

(***************************************************************************)
(* The operands of an operator: three objects, obj_instance (the left      *)
(* operand), other (the right one) and the deep copy the operator works    *)
(* on.                                                                     *)
(***************************************************************************)

\* The operator applied to obj_instance itself, with no copy made.
ReturnedInstanceNoCopy(obj_instance) == [id |-> "obj_instance", obj |-> obj_instance]

\* returned_instance = copy.deepcopy(obj_instance): a new object with the
\* attributes of obj_instance.
ReturnedInstance(obj_instance) == [id |-> "returned_instance", obj |-> obj_instance]

\* decorated_operator(obj_instance, other): the operator assigns to the
\* time stamp of returned_instance and returns it; other is only read.  The
\* result is the exception, the object returned and obj_instance and other
\* as the call leaves them.
DecoratedOperator(obj_instance, name, other) ==
    LET returned_instance == ReturnedInstance(obj_instance)
        r == ApplyOperator(returned_instance.obj, name, other)
    IN  [raised |-> r.raised,
         returned |-> [id |-> returned_instance.id, obj |-> r.obj],
         obj_instance |-> IF returned_instance.id = "obj_instance" THEN r.obj
                          ELSE obj_instance,
         other |-> other]

\* Right operands: tags with all their attributes, and the other operands.
FrameOperands ==
    {[kind |-> "LyricTimeTab", value |-> LyricTimeTab(text, "strict").obj.time_stamp,
      tag |-> LyricTimeTab(text, "strict").obj] : text \in ArithTexts}
    \cup (Operands \ TagOperands)

FrameInit ==
    /\ operand \in FrameOperands
    /\ time_tab = NewTab(<<>>, "normal")
    /\ constructed = FALSE
    /\ op = ""
    /\ raised = ""
    /\ arg = 0
    /\ returned = <<>>
    /\ n_ops = 0
    /\ IdleSplit
    /\ IdleGroup
    /\ IdleContent

\* returned = time_tab <op> operand
OperatorOnOperands(name) ==
    /\ constructed
    /\ n_ops < MaxOps
    /\ op' = name
    /\ LET r == DecoratedOperator(time_tab, name, operand)
       IN  /\ raised' = r.raised
           /\ returned' = IF r.raised = "" THEN <<r.returned>> ELSE <<>>
           /\ time_tab' = r.obj_instance
           /\ operand' = r.other
    /\ n_ops' = n_ops + 1
    /\ UNCHANGED <<constructed, arg>>
    /\ UNCHANGED <<split_vars, group_vars, content_vars>>

FrameNext ==
    \/ \E text \in ArithTexts, mode \in BuiltinModes : New(text, mode)
    \/ \E name \in OperatorNames : OperatorOnOperands(name)

SpecFrame == FrameInit /\ [][FrameNext]_vars

\* C29: no operator changes its operands.  After tag op x, whether a result
\* is returned or an exception raised, the left operand and a right operand
\* that is a tag have the duration, text, brackets, seperators and widths
\* they had before, and a result is an object distinct from both.
C29_OperandsUnchanged ==
    [][op' \in OperatorNames
          => /\ time_tab' = time_tab
             /\ operand' = operand
             /\ returned' # <<>> => returned'[1].id \notin {"obj_instance", "other"}]_vars

\* C29 witness: a tag plus a tag returned a tag of another duration than the
\* left operand's.
C29_Witness ==
    /\ op = "__add__"
    /\ operand.kind = "LyricTimeTab"
    /\ raised = ""
    /\ returned # <<>>
    /\ returned[1].obj.time_stamp = time_tab.time_stamp + operand.tag.time_stamp
    /\ returned[1].obj.time_stamp # time_tab.time_stamp

====
